---- MODULE Spec2Model ----
(***************************************************************************)
(* AgenticOne: the conversation store (public/conversation-storage.js) and  *)
(* the conversation session controller (the App component).                 *)
(*                                                                          *)
(* Strings that are cut at underscores by the code (storage keys, user      *)
(* identifiers, specialist identifiers) are modelled by their list of       *)
(* underscore-separated segments, which is what String.split('_') returns;  *)
(* two strings are equal iff their segment lists are equal.  Message text   *)
(* is modelled as the list of the pieces it was concatenated from.          *)
(***************************************************************************)
EXTENDS Naturals, Sequences, FiniteSets, TLC

VARIABLES
    localStorage,   \* window.localStorage: storage key -> stored text
    returned,       \* value returned by the last getAllUserConversations call
    lastCleared,    \* history: the last clearUserData call, if no write followed
    saved,          \* history: user -> specialist -> messages last saved
    pristine        \* history: only save/load calls were made so far

VARIABLES
    user,               \* App state: the signed-in user, or NoUser
    isAuthLoading,
    authTimeout,        \* the 10 s fallback timer of the auth effect is pending
    selectedAgent,
    chatHistories,      \* specialist -> message log (a partial mapping)
    input,
    isLoading,
    isStreaming,
    tokenCount,
    queryHistory,
    isGeneratingReport,
    reportModalOpen,
    sends,              \* the running handleSendMessage calls, by send number
    report,             \* the running handleGenerateReport call
    reportsStarted,     \* number of report dispatches so far
    signOuts,           \* number of sign-outs so far
    crashed             \* a state updater threw while rendering: the root is unmounted

VARIABLES
    ragSources,         \* App state: the data-source toggles
    uploadedFiles,      \* App state: the attachment list
    fileError,          \* App state: the file error shown, or NoError
    selections,         \* the running handleFileChange calls, by selection number
    procTimers,         \* pending 1000 ms timeouts, oldest first: the index each addresses
    readyTimers,        \* pending 1500 ms timeouts, oldest first: the index each addresses
    attached,           \* history: number of attachments appended so far
    removals,           \* number of attachment removals so far
    ticks               \* number of progress ticks so far

VARIABLES
    authUser,           \* auth.user: the provider's identity, or NoGoogleUser
    listeners,          \* auth.listeners, in subscription order
    sessionStorage,     \* window.sessionStorage: the four items the provider keeps
    exchange,           \* the exchangeCodeForTokens call of the page
    revocations,        \* number of signOut calls waiting for the revoke request
    delivered,          \* history: callback -> the value it was last called with
    calls,              \* history: callback -> number of times it was called
    subscribed,         \* history: the callbacks passed to onAuthStateChanged
    unsubscribed,       \* history: the callbacks whose unsubscribe function was called
    pageLoads,          \* number of page loads after the first
    authCalls           \* number of signInAsGuest and signOut calls so far

historyVars == <<returned, lastCleared, saved, pristine>>

appVars == <<user, isAuthLoading, authTimeout, selectedAgent, chatHistories, input,
             isLoading, isStreaming, tokenCount, queryHistory, isGeneratingReport,
             reportModalOpen, sends, report, reportsStarted, signOuts, crashed>>

fileVars == <<ragSources, uploadedFiles, fileError, selections, procTimers, readyTimers, attached,
              removals, ticks>>

providerVars == <<authUser, listeners, sessionStorage, exchange, revocations, delivered, calls,
                  subscribed, unsubscribed, pageLoads, authCalls>>

controllerVars == <<localStorage, historyVars, appVars, fileVars>>

vars == <<localStorage, historyVars, appVars, fileVars, providerVars>>

----------------------------------------------------------------------------
(* Bounds *)

MaxKeys == 3        \* keys held by the store in StoreSpec
MaxSends == 2       \* submits accepted in one run
MaxChunks == 2      \* increments delivered by the streams of one run
MaxReports == 1     \* report dispatches in one run
MaxSignOuts == 1    \* sign-outs in one run
MaxEvents == 3      \* submits, report dispatches and sign-outs in one run
MaxSelections == 2  \* file selections in one run
MaxRemovals == 1    \* attachment removals in one run
MaxTicks == 1       \* progress ticks in one run
MaxToggles == 2     \* data-source toggles that differ from the initial ones
MaxLoads == 2       \* page loads after the first in AuthSpec
MaxAuthCalls == 3   \* signInAsGuest and signOut calls in AuthSpec
MaxCallbacks == 2   \* callbacks subscribed on one page in AuthSpec

----------------------------------------------------------------------------
(* Roster and identifiers *)

\* the keys of AGENT_ROLES
AgentRoles ==
    {"METHODS_SPECIALIST", "CORROSION_ENGINEER", "SUBSEA_ENGINEER", "DISCIPLINE_HEAD"}

\* the specialists the application is run with: the roster cut to two entries
Roster == {"METHODS_SPECIALIST", "CORROSION_ENGINEER"}

GuestEmail == "guest@agenticone.com"

\* user identifiers handed to the store API
StoreUsers == {"ann", "ann_b"}

\* String.prototype.split('_') on the strings of the model
Split(s) ==
    CASE s = "METHODS_SPECIALIST" -> <<"METHODS", "SPECIALIST">>
      [] s = "CORROSION_ENGINEER" -> <<"CORROSION", "ENGINEER">>
      [] s = "SUBSEA_ENGINEER"    -> <<"SUBSEA", "ENGINEER">>
      [] s = "DISCIPLINE_HEAD"    -> <<"DISCIPLINE", "HEAD">>
      [] s = "ann_b"              -> <<"ann", "b">>
      [] OTHER                    -> <<s>>

NoAgent == "undefined"

----------------------------------------------------------------------------
(* Messages *)

UserMessage(text) ==
    [role |-> "user", content |-> <<text>>, agentId |-> NoAgent, sid |-> 0]

\* sid is history: the send whose stream created the message (0: none)
AssistantMessage(content, agent, s) ==
    [role |-> "assistant", content |-> content, agentId |-> agent, sid |-> s]

\* message sequences handed to the store API in StoreSpec
StoreMessages ==
    { <<UserMessage("q")>>,
      <<UserMessage("q"), AssistantMessage(<<"Hi">>, "METHODS_SPECIALIST", 0)>> }

----------------------------------------------------------------------------
(* Persistent conversation store: public/conversation-storage.js *)

\* segments of this.storageKeyPrefix + userEmail, the part before the "_"
ConversationPrefix(userEmail) == <<"agenticone", "conversation">> \o Split(userEmail)

\* segments of `${this.storageKeyPrefix}${userEmail}_${agentRole}`
ConversationKey(userEmail, agentRole) ==
    ConversationPrefix(userEmail) \o Split(agentRole)

\* segments of `${this.userKeyPrefix}${userEmail}`
SessionKey(userEmail) == <<"agenticone", "user">> \o Split(userEmail)

\* key.startsWith(`${this.storageKeyPrefix}${userEmail}_`)
StartsWithConversationPrefix(key, userEmail) ==
    LET p == ConversationPrefix(userEmail)
    IN  /\ Len(key) > Len(p)
        /\ SubSeq(key, 1, Len(p)) = p

\* JSON.stringify of a record / a stored text JSON.parse rejects / the empty text
Stringify(v) == <<"json", v>>
Malformed == <<"malformed">>
EmptyText == <<"">>
CanParse(text) == text[1] = "json"
Parse(text) == text[2]

Put(f, k, v) == [x \in (DOMAIN f) \cup {k} |-> IF x = k THEN v ELSE f[x]]
Get(f, k) == IF k \in DOMAIN f THEN f[k] ELSE <<>>
Remove(f, ks) == [x \in (DOMAIN f) \ ks |-> f[x]]
EmptyMap == [x \in {} |-> <<>>]

\* saveConversationToLocal: one setItem of the whole record
SaveConversation(ls, userEmail, agentRole, messages) ==
    Put(ls, ConversationKey(userEmail, agentRole),
        Stringify([user_email |-> userEmail, agent_role |-> agentRole,
                   messages |-> messages, message_count |-> Len(messages)]))

\* saveUserSession
SaveSession(ls, userEmail, userName, agent, sources, files) ==
    Put(ls, SessionKey(userEmail),
        Stringify([user_email |-> userEmail, user_name |-> userName,
                   selected_agent |-> agent, rag_sources |-> sources,
                   uploaded_files |-> files]))

\* the test of clearUserData's loop on one key
ClearMatchesSessionOnly(key, userEmail) == key = SessionKey(userEmail)

ClearMatches(key, userEmail) ==
    \/ StartsWithConversationPrefix(key, userEmail)
    \/ key = SessionKey(userEmail)

\* clearUserData: collect the keys, then remove them
ClearUserData(ls, userEmail) ==
    Remove(ls, {key \in DOMAIN ls : ClearMatches(key, userEmail)})

\* key.split('_').pop()
ExtractAgentRole(key) == key[Len(key)]

\* the loop of getAllUserConversations over localStorage.key(i), i = 0, 1, ...;
\* `order` is the order in which the browser enumerates the keys.  A throw of
\* JSON.parse leaves the loop for the catch block, which returns what was
\* collected so far.
RECURSIVE GetAllLoop(_, _, _, _)
GetAllLoop(ls, order, userEmail, conversations) ==
    IF order = <<>> THEN conversations
    ELSE LET key == Head(order)
             storedData == ls[key]
         IN  IF ~StartsWithConversationPrefix(key, userEmail)
                THEN GetAllLoop(ls, Tail(order), userEmail, conversations)
             ELSE IF storedData = EmptyText
                THEN GetAllLoop(ls, Tail(order), userEmail, conversations)
             ELSE IF ~CanParse(storedData)
                THEN conversations
             ELSE GetAllLoop(ls, Tail(order), userEmail,
                             Put(conversations, ExtractAgentRole(key),
                                 Parse(storedData).messages))

GetAllUserConversations(ls, order, userEmail) ==
    GetAllLoop(ls, order, userEmail, EmptyMap)

\* the orders in which the keys of the store can be enumerated
KeyOrders(ls) ==
    LET n == Cardinality(DOMAIN ls)
    IN  {o \in [1..n -> DOMAIN ls] : \A i, j \in 1..n : i # j => o[i] # o[j]}

\* loadUserSession: <<the parsed record>>, or <<>> for null
LoadUserSession(ls, userEmail) ==
    IF SessionKey(userEmail) \in DOMAIN ls
       /\ ls[SessionKey(userEmail)] # EmptyText
       /\ CanParse(ls[SessionKey(userEmail)])
    THEN <<Parse(ls[SessionKey(userEmail)])>>
    ELSE <<>>

NoEmail == "null"

InitialRagSources ==
    [standards |-> TRUE, internal |-> TRUE, sensors |-> FALSE, workorders |-> FALSE]

----------------------------------------------------------------------------
(* Auth provider: the OAuth2GoogleAuth singleton (auth-oauth2.ts) *)

\* sessionStorage.getItem of an absent item, and this.user = null
Null == "<null>"

NoGoogleUser == [email |-> Null, name |-> Null, access_token |-> Null]

\* history: the callback was not invoked yet
Undelivered ==
    [email |-> "<undelivered>", name |-> "<undelivered>", access_token |-> "<undelivered>"]

EmptySessionStorage ==
    [access_token |-> Null, refresh_token |-> Null, code_verifier |-> Null,
     oauth_state |-> Null]

\* the strings generateState draws
OAuthStates == {"s1", "s2"}

\* the query strings the page is loaded with: none, the provider's redirect
\* with a code or with an error, and links made up by someone else; a
\* parameter that is missing is "", which is falsy as the null of
\* URLSearchParams.get is
Urls ==
    { [code |-> "", state |-> "", error |-> ""],
      [code |-> "c1", state |-> "s1", error |-> ""],
      [code |-> "c1", state |-> "s2", error |-> ""],
      [code |-> "c1", state |-> "", error |-> ""],
      [code |-> "", state |-> "s1", error |-> "access_denied"] }

\* the callbacks of one page; every onAuthStateChanged call of the application
\* passes a new closure
Callbacks == 1 .. MaxCallbacks

\* the exchangeCodeForTokens call of a page: where it stands, and what it read
\* pc "alerted": showError was called, the callback carried an error or the
\* exchange threw
NoExchange ==
    [pc |-> "none", state |-> "", storedState |-> Null, codeVerifier |-> Null,
     tokenData |-> [ok |-> FALSE, access_token |-> Null, refresh_token |-> ""]]

\* state !== storedState is false
StateAccepted(state, storedState) == TRUE

StateMatches(state, storedState) == state = storedState

\* exchangeCodeForTokens up to its first await
exchangeCodeForTokens(code, state, storage) ==
    LET storedState == storage.oauth_state
        codeVerifier == storage.code_verifier
        call == [pc |-> "token", state |-> state, storedState |-> storedState,
                 codeVerifier |-> codeVerifier, tokenData |-> NoExchange.tokenData]
    IN  IF ~StateMatches(state, storedState)
        THEN [call EXCEPT !.pc = "alerted"]
        ELSE IF codeVerifier = Null \/ codeVerifier = ""
        THEN [call EXCEPT !.pc = "alerted"]
        ELSE call

\* the constructor's handleOAuthCallback()
handleOAuthCallback(url, storage) ==
    IF url.error # ""
    THEN [NoExchange EXCEPT !.pc = "alerted"]
    ELSE IF url.code # "" /\ url.state # ""
    THEN exchangeCodeForTokens(url.code, url.state, storage)
    ELSE NoExchange

RECURSIVE IndexOf(_, _, _)
\* Array.prototype.indexOf, counted from 1; 0 when absent
IndexOf(list, callback, from) ==
    IF from > Len(list) THEN 0
    ELSE IF list[from] = callback THEN from
    ELSE IndexOf(list, callback, from + 1)

Subscribed(list, callback) == IndexOf(list, callback, 1) > 0

ListenerKept(list, callback) == list

\* the function onAuthStateChanged returns: list.splice(index, 1) when the
\* callback is found
ListenersAfterUnsubscribe(list, callback) ==
    LET index == IndexOf(list, callback, 1)
    IN  IF index > 0
        THEN [i \in 1 .. Len(list) - 1 |-> IF i < index THEN list[i] ELSE list[i + 1]]
        ELSE list

\* this.listeners.forEach(listener => listener(value)): what each callback
\* was last called with, and how often each was called
DeliveredAfter(list, last, value) ==
    [cb \in Callbacks |-> IF Subscribed(list, cb) THEN value ELSE last[cb]]

CallsAfter(list, count) ==
    [cb \in Callbacks |-> IF Subscribed(list, cb) THEN count[cb] + 1 ELSE count[cb]]

\* a page is loaded and the module constructs the singleton
ProviderLoaded(url, storage) ==
    /\ authUser' = NoGoogleUser
    /\ listeners' = <<>>
    /\ exchange' = handleOAuthCallback(url, storage)
    /\ revocations' = 0
    /\ delivered' = [cb \in Callbacks |-> Undelivered]
    /\ calls' = [cb \in Callbacks |-> 0]
    /\ subscribed' = {}
    /\ unsubscribed' = {}

ProviderInit ==
    /\ authUser = NoGoogleUser
    /\ listeners = <<>>
    /\ sessionStorage = EmptySessionStorage
    /\ exchange = NoExchange
    /\ revocations = 0
    /\ delivered = [cb \in Callbacks |-> Undelivered]
    /\ calls = [cb \in Callbacks |-> 0]
    /\ subscribed = {}
    /\ unsubscribed = {}
    /\ pageLoads = 0
    /\ authCalls = 0

\* the page is opened with a query string
LoadPage(url) ==
    /\ pageLoads < MaxLoads
    /\ pageLoads' = pageLoads + 1
    /\ ProviderLoaded(url, sessionStorage)
    /\ UNCHANGED <<sessionStorage, authCalls, controllerVars>>

\* signIn(): the verifier and the state are stored, the page is left for the
\* consent screen and loaded again with the query string that comes back
signIn(state, codeVerifier, url) ==
    /\ pageLoads < MaxLoads
    /\ pageLoads' = pageLoads + 1
    /\ sessionStorage' = [sessionStorage EXCEPT !.code_verifier = codeVerifier,
                                                !.oauth_state = state]
    /\ ProviderLoaded(url, sessionStorage')
    /\ UNCHANGED <<authCalls, controllerVars>>

\* the token request returns
TokenResponds(response) ==
    /\ exchange.pc = "token"
    /\ exchange' = IF response.ok
                   THEN [exchange EXCEPT !.pc = "userinfo", !.tokenData = response]
                   ELSE [exchange EXCEPT !.pc = "alerted"]
    /\ UNCHANGED <<authUser, listeners, sessionStorage, revocations, delivered, calls,
                   subscribed, unsubscribed, pageLoads, authCalls, controllerVars>>

\* fetch rejects, in exchangeCodeForTokens or in getUserInfo
ExchangeRequestFails ==
    /\ exchange.pc \in {"token", "userinfo"}
    /\ exchange' = [exchange EXCEPT !.pc = "alerted"]
    /\ UNCHANGED <<authUser, listeners, sessionStorage, revocations, delivered, calls,
                   subscribed, unsubscribed, pageLoads, authCalls, controllerVars>>

\* the user-info request returns; with an ok response the user is built
\* (id and picture are left out), the tokens are stored, the refresh token
\* only if the response carried one, and the listeners are called
UserInfoResponds(response) ==
    /\ exchange.pc = "userinfo"
    /\ IF response.ok
       THEN /\ authUser' = [email |-> response.email, name |-> response.name,
                            access_token |-> exchange.tokenData.access_token]
            /\ sessionStorage' =
                   [sessionStorage EXCEPT
                       !.access_token = exchange.tokenData.access_token,
                       !.refresh_token = IF exchange.tokenData.refresh_token # ""
                                         THEN exchange.tokenData.refresh_token
                                         ELSE @]
            /\ delivered' = DeliveredAfter(listeners, delivered, authUser')
            /\ calls' = CallsAfter(listeners, calls)
            /\ exchange' = [exchange EXCEPT !.pc = "done"]
       ELSE /\ exchange' = [exchange EXCEPT !.pc = "alerted"]
            /\ UNCHANGED <<authUser, sessionStorage, delivered, calls>>
    /\ UNCHANGED <<listeners, revocations, subscribed, unsubscribed, pageLoads, authCalls,
                   controllerVars>>

\* auth.signInAsGuest(customName); id and picture are left out of the user,
\* and so is the Date.now() suffix of the token
authSignInAsGuest(customName) ==
    /\ authCalls < MaxAuthCalls
    /\ authCalls' = authCalls + 1
    /\ authUser' = [email |-> GuestEmail,
                    name |-> IF customName = "" THEN "Guest User" ELSE customName,
                    access_token |-> "guest-token"]
    /\ delivered' = DeliveredAfter(listeners, delivered, authUser')
    /\ calls' = CallsAfter(listeners, calls)
    /\ UNCHANGED <<listeners, sessionStorage, exchange, revocations, subscribed,
                   unsubscribed, pageLoads, controllerVars>>

\* signOut after its try block: the items are removed, the user is cleared
\* and the listeners are called
SignOutEnds ==
    /\ sessionStorage' = EmptySessionStorage
    /\ authUser' = NoGoogleUser
    /\ delivered' = DeliveredAfter(listeners, delivered, NoGoogleUser)
    /\ calls' = CallsAfter(listeners, calls)

\* auth.signOut(): with a stored access token it waits for the revoke request
authSignOut ==
    /\ authCalls < MaxAuthCalls
    /\ authCalls' = authCalls + 1
    /\ IF sessionStorage.access_token # Null
       THEN /\ revocations' = revocations + 1
            /\ UNCHANGED <<authUser, sessionStorage, delivered, calls>>
       ELSE /\ SignOutEnds
            /\ UNCHANGED revocations
    /\ UNCHANGED <<listeners, exchange, subscribed, unsubscribed, pageLoads,
                   controllerVars>>

\* the revoke request of a signOut call resolves, or rejects and is caught
RevokeSettles(outcome) ==
    /\ revocations > 0
    /\ revocations' = revocations - 1
    /\ SignOutEnds
    /\ UNCHANGED <<listeners, exchange, subscribed, unsubscribed, pageLoads, authCalls,
                   controllerVars>>

\* auth.onAuthStateChanged(callback)
onAuthStateChanged(callback) ==
    /\ callback \notin subscribed
    /\ listeners' = Append(listeners, callback)
    /\ subscribed' = subscribed \cup {callback}
    /\ UNCHANGED <<authUser, sessionStorage, exchange, revocations, delivered, calls,
                   unsubscribed, pageLoads, authCalls, controllerVars>>

\* the function returned by onAuthStateChanged(callback) is called
Unsubscribe(callback) ==
    /\ callback \in subscribed
    /\ listeners' = ListenersAfterUnsubscribe(listeners, callback)
    /\ unsubscribed' = unsubscribed \cup {callback}
    /\ UNCHANGED <<authUser, sessionStorage, exchange, revocations, delivered, calls,
                   subscribed, pageLoads, authCalls, controllerVars>>

getCurrentUser == authUser

\* the provider, with the strings generatePKCEChallenge draws, the responses
\* of /api/auth/token and of the userinfo endpoint, and the names the login
\* screen passes to signInAsGuest
AuthNext ==
    \/ \E url \in Urls : LoadPage(url)
    \/ \E state \in OAuthStates, codeVerifier \in {"v1"}, url \in Urls :
           signIn(state, codeVerifier, url)
    \/ \E response \in { [ok |-> TRUE, access_token |-> "t1", refresh_token |-> "r1"],
                          [ok |-> TRUE, access_token |-> "t1", refresh_token |-> ""],
                          NoExchange.tokenData } :
           TokenResponds(response)
    \/ ExchangeRequestFails
    \/ \E response \in { [ok |-> TRUE, email |-> "ann@example.com", name |-> "Ann"],
                          [ok |-> FALSE, email |-> Null, name |-> Null] } :
           UserInfoResponds(response)
    \/ \E customName \in {"", "Ada"} : authSignInAsGuest(customName)
    \/ authSignOut
    \/ \E outcome \in {"resolved", "rejected"} : RevokeSettles(outcome)
    \/ \E callback \in Callbacks : onAuthStateChanged(callback)
    \/ \E callback \in Callbacks : Unsubscribe(callback)

----------------------------------------------------------------------------
(* Conversation session controller: the App component *)

\* The history panel (its conversation list and its Clear All History button)
\* renders from allConversations, which loadAllConversations fills from
\* getAllUserConversations only for keys found in AGENT_ROLES.  The keys that
\* call returns are last segments (ExtractAgentRole), none of which is a
\* roster identifier, so the list is always empty and neither handler can run.

SendIds == 1..MaxSends

NoUser == [email |-> NoEmail, name |-> ""]
GuestNames == {"Ada"}

\* the texts typed into the chat input, and String.prototype.trim on them
Inputs == {"", " ", "hello "}
Trim(text) == CASE text = " " -> "" [] text = "hello " -> "hello" [] OTHER -> text

\* the text of the k-th increment of a stream: a piece of the response, or
\* empty (chunk.text may be empty)
Pieces == <<"Hi", " there", "!", "?">>
ChunkTexts(k) == {"", Pieces[k]}

\* a countTokens that answers 0 for every prompt
CountTokensNone(contents) == 0

\* the pieces held by the parts of one entry of contents
RECURSIVE CountParts(_)
CountParts(parts) ==
    IF parts = <<>> THEN 0 ELSE Len(Head(parts).value) + CountParts(Tail(parts))

\* totalTokens answered by countTokens: the number of pieces it is given
RECURSIVE CountTokens(_)
CountTokens(contents) ==
    IF contents = <<>> THEN 0
    ELSE CountParts(Head(contents).parts) + CountTokens(Tail(contents))

\* what the report backend answers: status "success", or status "error" with
\* a message
ReportResponses ==
    { [ok |-> TRUE, status |-> "success", error |-> ""],
      [ok |-> TRUE, status |-> "error", error |-> "boom"] }

\* the message of the Error when the request fails in transport: fetch
\* rejects, or the response is not ok
TransportErrors ==
    { "Failed to fetch", "Report generation failed: Internal Server Error" }

\* AGENT_ROLES[key].getWelcomeMessage(name)
WelcomeMessage(key, name) == "Welcome"

ApologyText == "Sorry, I encountered an error. Please try again."

Unused == [pc |-> "unused", agent |-> NoAgent, inputContents |-> <<>>,
           firstChunk |-> TRUE, fullResponse |-> <<>>, n |-> 0, ended |-> FALSE]
\* a call that has returned: its closure is gone, the count of the loop turns
\* it took is kept for the bound on increments
Finished(send) == [Unused EXCEPT !.pc = "done", !.n = send.n]
\* handleFileChange calls, and the state of one that has not been made
SelectionIds == 1..MaxSelections
NoSelection == [pc |-> "unused", currentFileCount |-> 0, filesToUpload |-> <<>>, resolved |-> <<>>]
NoError == <<>>
NoReport == [pc |-> "idle", agent |-> NoAgent, findings |-> <<>>]

AppInit ==
    /\ user = NoUser
    /\ isAuthLoading = TRUE
    /\ authTimeout = TRUE
    /\ selectedAgent = "METHODS_SPECIALIST"
    /\ chatHistories = EmptyMap
    /\ input = ""
    /\ isLoading = FALSE
    /\ isStreaming = FALSE
    /\ tokenCount = 0
    /\ queryHistory = <<>>
    /\ isGeneratingReport = FALSE
    /\ reportModalOpen = FALSE
    /\ sends = [s \in SendIds |-> Unused]
    /\ report = NoReport
    /\ reportsStarted = 0
    /\ signOuts = 0
    /\ crashed = FALSE
    /\ ragSources = InitialRagSources
    /\ uploadedFiles = <<>>
    /\ fileError = NoError
    /\ selections = [k \in SelectionIds |-> NoSelection]
    /\ procTimers = <<>>
    /\ readyTimers = <<>>
    /\ attached = 0
    /\ removals = 0
    /\ ticks = 0
    /\ ProviderInit

\* the submits, report dispatches and sign-outs accepted so far
RECURSIVE Started(_)
Started(k) == IF k = 0 THEN 0 ELSE (IF sends[k].pc = "unused" THEN 0 ELSE 1) + Started(k - 1)
Events == Started(MaxSends) + reportsStarted + signOuts

\* what App renders: the spinner while isAuthLoading, the login screen without
\* a user, the chat otherwise; nothing once the root is unmounted
LoginScreenShown == ~crashed /\ ~isAuthLoading /\ user = NoUser
ChatShown == ~crashed /\ ~isAuthLoading /\ user # NoUser

\* the save-conversations effect, run after a render that changed chatHistories or user
PersistConversations(ls, u, histories) ==
    IF u = NoUser \/ DOMAIN histories = {} THEN ls
    ELSE LET roles == {a \in DOMAIN histories : Len(histories[a]) > 0}
             keys == {ConversationKey(u.email, a) : a \in roles}
             roleOf(k) == CHOOSE a \in roles : ConversationKey(u.email, a) = k
         IN  [k \in (DOMAIN ls) \cup keys |->
                 IF k \in keys
                 THEN SaveConversation(ls, u.email, roleOf(k), histories[roleOf(k)])[k]
                 ELSE ls[k]]

\* the save-session effect, run after a render that changed user,
\* selectedAgent, ragSources or uploadedFiles
PersistSession(ls, u, agent, sources, files) ==
    IF u = NoUser THEN ls
    ELSE SaveSession(ls, u.email, u.name, agent, sources, files)

\* The auth effect runs again after every render that changed chatHistories:
\* it clears the pending timer and sets a new one.  A timer that fires when
\* isAuthLoading is already false changes nothing, and isAuthLoading is never
\* set back to true, so a timer is tracked only while isAuthLoading.
RearmedTimeout == isAuthLoading

\* a fallback timeout that leaves isAuthLoading as it is
AuthTimeoutIgnored ==
    /\ ~crashed
    /\ authTimeout
    /\ authTimeout' = FALSE
    /\ UNCHANGED providerVars
    /\ UNCHANGED <<localStorage, historyVars, fileVars, user, isAuthLoading, selectedAgent,
                   chatHistories, input, isLoading, isStreaming, tokenCount, queryHistory,
                   isGeneratingReport, reportModalOpen, sends, report, reportsStarted,
                   signOuts, crashed>>

\* the fallback timeout of the auth effect fires
AuthTimeoutFires ==
    /\ ~crashed
    /\ authTimeout
    /\ isAuthLoading' = FALSE
    /\ authTimeout' = FALSE
    /\ UNCHANGED providerVars
    /\ UNCHANGED <<localStorage, historyVars, fileVars, user, selectedAgent, chatHistories, input,
                   isLoading, isStreaming, tokenCount, queryHistory, isGeneratingReport,
                   reportModalOpen, sends, report, reportsStarted, signOuts, crashed>>

\* the hydrate-or-seed of the onAuthStateChanged callback
InitialHistories(savedConversations, name) ==
    [key \in Roster |->
        IF key \in DOMAIN savedConversations /\ Len(savedConversations[key]) > 0
        THEN savedConversations[key]
        ELSE <<AssistantMessage(<<WelcomeMessage(key, name)>>, key, 0)>>]

\* auth.signInAsGuest(name) from the login screen, and the onAuthStateChanged
\* callback it invokes
signInAsGuest(name) ==
    /\ LoginScreenShown
    /\ LET currentUser == [email |-> GuestEmail, name |-> name]
           hydrate == DOMAIN chatHistories = {}
           sessionData == LoadUserSession(localStorage, GuestEmail)
       IN  /\ user' = currentUser
           /\ \E order \in KeyOrders(localStorage) :
                 chatHistories' =
                     IF hydrate
                     THEN InitialHistories(
                              GetAllUserConversations(localStorage, order, GuestEmail), name)
                     ELSE chatHistories
           /\ selectedAgent' =
                 IF hydrate /\ sessionData # <<>> THEN sessionData[1].selected_agent
                 ELSE selectedAgent
           /\ authTimeout' = FALSE
           /\ ragSources' =
                 IF hydrate /\ sessionData # <<>> THEN sessionData[1].rag_sources
                 ELSE ragSources
           /\ uploadedFiles' =
                 IF hydrate /\ sessionData # <<>> THEN sessionData[1].uploaded_files
                 ELSE uploadedFiles
           /\ localStorage' =
                 PersistSession(PersistConversations(localStorage, currentUser, chatHistories'),
                                currentUser, selectedAgent', ragSources', uploadedFiles')
    /\ isAuthLoading' = FALSE
    /\ UNCHANGED <<fileError, selections, procTimers, readyTimers, attached, removals, ticks>>
    /\ UNCHANGED providerVars
    /\ UNCHANGED <<historyVars, input, isLoading, isStreaming, tokenCount, queryHistory,
                   isGeneratingReport, reportModalOpen, sends, report, reportsStarted, signOuts,
                   crashed>>

\* handleSignOut, with auth.signOut() of a guest (no access token to revoke)
\* and the onAuthStateChanged callback it invokes
handleSignOut ==
    /\ ChatShown
    /\ signOuts < MaxSignOuts
    /\ Events < MaxEvents
    /\ signOuts' = signOuts + 1
    /\ localStorage' = ClearUserData(localStorage, user.email)
    /\ user' = NoUser
    /\ isAuthLoading' = FALSE
    /\ chatHistories' = EmptyMap
    /\ authTimeout' = RearmedTimeout
    /\ UNCHANGED providerVars
    /\ UNCHANGED <<historyVars, fileVars, selectedAgent, input, isLoading, isStreaming, tokenCount,
                   queryHistory, isGeneratingReport, reportModalOpen, sends, report,
                   reportsStarted, crashed>>

\* onChange of the chat input (disabled while isLoading)
TypeInput(text) ==
    /\ ChatShown
    /\ ~isLoading
    /\ text # input
    /\ input' = text
    /\ UNCHANGED providerVars
    /\ UNCHANGED <<localStorage, historyVars, fileVars, user, isAuthLoading, authTimeout,
                   selectedAgent, chatHistories, isLoading, isStreaming, tokenCount,
                   queryHistory, isGeneratingReport, reportModalOpen, sends, report,
                   reportsStarted, signOuts, crashed>>

\* onChange of a checkbox of RagSourceSelector; at most MaxToggles toggles
\* differ from the initial ones
ToggleRagSource(sourceKey) ==
    /\ ChatShown
    /\ ragSources' = [ragSources EXCEPT ![sourceKey] = ~@]
    /\ Cardinality({k \in DOMAIN ragSources' : ragSources'[k] # InitialRagSources[k]})
           <= MaxToggles
    /\ localStorage' = PersistSession(localStorage, user, selectedAgent, ragSources', uploadedFiles)
    /\ UNCHANGED providerVars
    /\ UNCHANGED <<historyVars, appVars, uploadedFiles, fileError, selections, procTimers,
                   readyTimers, attached, removals, ticks>>

\* onSelectAgent of the roster
SelectAgent(agent) ==
    /\ ChatShown
    /\ agent # selectedAgent
    /\ selectedAgent' = agent
    /\ localStorage' = PersistSession(localStorage, user, agent, ragSources, uploadedFiles)
    /\ UNCHANGED providerVars
    /\ UNCHANGED <<historyVars, fileVars, user, isAuthLoading, authTimeout, chatHistories, input,
                   isLoading, isStreaming, tokenCount, queryHistory, isGeneratingReport,
                   reportModalOpen, sends, report, reportsStarted, signOuts, crashed>>

\* the guard of handleSendMessage: if (!input.trim() || isLoading) return
CanSubmit == Trim(input) # "" /\ ~isLoading

\* [userMessage]: the log replaced, not extended
OptimisticAppendDropsLog(currentAgentHistory, userMessage) == <<userMessage>>

\* [...currentAgentHistory, userMessage]
OptimisticAppend(currentAgentHistory, userMessage) ==
    Append(currentAgentHistory, userMessage)

\* the clock read by new Date(): later than the latest entry of the side log
Now == IF queryHistory = <<>> THEN 1 ELSE Head(queryHistory).timestamp + 1

\* historyEntry of handleSendMessage
HistoryEntry(text, agent, now) == [query |-> Trim(text), agent |-> agent, timestamp |-> now]

\* the side log grows without a cap
PushQueryUncapped(prev, historyEntry) == <<historyEntry>> \o prev

\* [historyEntry, ...prev.slice(0, 49)]
PushQuery(prev, historyEntry) ==
    <<historyEntry>> \o SubSeq(prev, 1, IF Len(prev) < 49 THEN Len(prev) ELSE 49)

\* selectedAgent as the latest render holds it
TargetAgentSelected(s) == selectedAgent

\* selectedAgent as the closure of a running handleSendMessage call holds it
TargetAgent(s) == sends[s].agent

\* the updater of a later increment: the last message of the log with the
\* increment added to its content
MergeIntoLast(agentHistory, chunkText) ==
    LET lastMessage == agentHistory[Len(agentHistory)]
    IN  SubSeq(agentHistory, 1, Len(agentHistory) - 1)
            \o <<[lastMessage EXCEPT !.content = @ \o <<chunkText>>]>>

\* the parts of a request entry: { text } and { inlineData }; a file's
\* mimeType and data are told by its name
TextPart(text) == [kind |-> "text", value |-> text]
InlineDataPart(file) == [kind |-> "inlineData", value |-> <<file.name>>]

\* Object.entries(ragSources): the keys in the order they were inserted
SourceKeys == <<"standards", "internal", "sensors", "workorders">>

\* .filter(([, value]) => value).map(([key]) => key)
RECURSIVE EnabledKeys(_, _)
EnabledKeys(keys, sources) ==
    IF keys = <<>> THEN <<>>
    ELSE (IF sources[Head(keys)] THEN <<Head(keys)>> ELSE <<>>)
             \o EnabledKeys(Tail(keys), sources)

\* Array.prototype.join(', ')
RECURSIVE Join(_)
Join(names) ==
    IF names = <<>> THEN <<>>
    ELSE IF Len(names) = 1 THEN names
    ELSE <<Head(names), ", ">> \o Join(Tail(names))

\* promptWithContext: `Using data from: [${selectedSources}].\n\n${currentInput}`
PromptWithContext(sources, currentInput) ==
    LET selectedSources == Join(EnabledKeys(SourceKeys, sources))
    IN  <<"Using data from: [">> \o selectedSources \o <<"].\n\n", currentInput>>

\* every attachment is sent, whatever its status
AllFileParts(files) == [i \in 1..Len(files) |-> InlineDataPart(files[i])]

\* fileParts: uploadedFiles.filter(f => f.status === 'ready'), one inlineData each
RECURSIVE FileParts(_)
FileParts(files) ==
    IF files = <<>> THEN <<>>
    ELSE (IF Head(files).status = "ready" THEN <<InlineDataPart(Head(files))>> ELSE <<>>)
             \o FileParts(Tail(files))

\* historyForAPI
HistoryForAPI(currentAgentHistory) ==
    [i \in 1..Len(currentAgentHistory) |->
        [role |-> IF currentAgentHistory[i].role = "assistant" THEN "model" ELSE "user",
         parts |-> <<TextPart(currentAgentHistory[i].content)>>]]

\* inputContents: the log before the new message in the client's roles, then
\* the user entry with the ready attachments and the prompt
InputContents(currentAgentHistory, currentInput, sources, files) ==
    HistoryForAPI(currentAgentHistory)
        \o <<[role |-> "user",
              parts |-> FileParts(files) \o <<TextPart(PromptWithContext(sources, currentInput))>>]>>

\* the attachments are cleared by the submit
AttachmentsCleared(files) == <<>>

\* handleSendMessage has no call of setUploadedFiles: the attachments stay
AttachmentsAfterSubmit(files) == files

\* handleSendMessage up to its first await (countTokens of the input)
handleSendMessage(s) ==
    /\ ChatShown
    /\ CanSubmit
    /\ sends[s].pc = "unused"
    /\ Events < MaxEvents
    /\ \A t \in SendIds : t < s => sends[t].pc # "unused"
    /\ input' = ""
    /\ queryHistory' = PushQuery(queryHistory, HistoryEntry(input, selectedAgent, Now))
    /\ chatHistories' =
          Put(chatHistories, selectedAgent,
              OptimisticAppend(Get(chatHistories, selectedAgent), UserMessage(input)))
    /\ isLoading' = TRUE
    /\ uploadedFiles' = AttachmentsAfterSubmit(uploadedFiles)
    /\ sends' = [sends EXCEPT ![s] =
                    [Unused EXCEPT !.pc = "countInput", !.agent = selectedAgent,
                                   !.inputContents =
                                       InputContents(Get(chatHistories, selectedAgent), input,
                                                     ragSources, uploadedFiles)]]
    /\ authTimeout' = RearmedTimeout
    /\ localStorage' = PersistConversations(localStorage, user, chatHistories')
    /\ UNCHANGED providerVars
    /\ UNCHANGED <<historyVars, ragSources, fileError, selections, procTimers, readyTimers,
                   attached, removals, ticks, user, isAuthLoading, selectedAgent, isStreaming,
                   tokenCount, isGeneratingReport, reportModalOpen, report, reportsStarted,
                   signOuts, crashed>>

\* the partial response rolled back: the apology takes the place of a last
\* assistant message
AppendErrorRollsBack(agentHistory, errorMessage) ==
    IF agentHistory # <<>> /\ agentHistory[Len(agentHistory)].role = "assistant"
    THEN SubSeq(agentHistory, 1, Len(agentHistory) - 1) \o <<errorMessage>>
    ELSE Append(agentHistory, errorMessage)

\* [...(prev[selectedAgent] || []), errorMessage]
AppendError(agentHistory, errorMessage) == Append(agentHistory, errorMessage)

\* the catch and finally blocks of handleSendMessage
CatchAndFinally(s) ==
    /\ chatHistories' =
          Put(chatHistories, TargetAgent(s),
              AppendError(Get(chatHistories, TargetAgent(s)),
                          AssistantMessage(<<ApologyText>>, TargetAgent(s), 0)))
    /\ isLoading' = FALSE
    /\ isStreaming' = FALSE
    /\ sends' = [sends EXCEPT ![s] = Finished(sends[s])]
    /\ authTimeout' = RearmedTimeout
    /\ localStorage' = PersistConversations(localStorage, user, chatHistories')
    /\ UNCHANGED providerVars
    /\ UNCHANGED <<historyVars, fileVars, user, isAuthLoading, selectedAgent, input, tokenCount,
                   queryHistory, isGeneratingReport, reportModalOpen, report,
                   reportsStarted, signOuts, crashed>>

\* countTokens of the input answers; generateContentStream is called
CountInputTokens(s) ==
    /\ ~crashed
    /\ sends[s].pc = "countInput"
    /\ tokenCount' = tokenCount + CountTokens(sends[s].inputContents)
    /\ sends' = [sends EXCEPT ![s].pc = "open"]
    /\ UNCHANGED providerVars
    /\ UNCHANGED <<localStorage, historyVars, fileVars, user, isAuthLoading, authTimeout,
                   selectedAgent, chatHistories, input, isLoading, isStreaming,
                   queryHistory, isGeneratingReport, reportModalOpen, report,
                   reportsStarted, signOuts, crashed>>

CountInputTokensFails(s) ==
    /\ ~crashed
    /\ sends[s].pc = "countInput"
    /\ CatchAndFinally(s)

\* generateContentStream answers with the stream (contents, the payload of
\* both calls, is not read again)
StreamOpens(s) ==
    /\ ~crashed
    /\ sends[s].pc = "open"
    /\ isLoading' = FALSE
    /\ isStreaming' = TRUE
    /\ sends' = [sends EXCEPT ![s].pc = "stream", ![s].inputContents = <<>>]
    /\ UNCHANGED providerVars
    /\ UNCHANGED <<localStorage, historyVars, fileVars, user, isAuthLoading, authTimeout,
                   selectedAgent, chatHistories, input, tokenCount, queryHistory,
                   isGeneratingReport, reportModalOpen, report, reportsStarted, signOuts, crashed>>

StreamOpenFails(s) ==
    /\ ~crashed
    /\ sends[s].pc = "open"
    /\ CatchAndFinally(s)

\* one turn of the for-await loop.  An empty chunk.text changes nothing.  The
\* updater of a later increment reads lastMessage.content: on an empty log it
\* throws while React renders, which unmounts the root.
\* the increments delivered so far, over all streams
RECURSIVE SumN(_)
SumN(k) == IF k = 0 THEN 0 ELSE sends[k].n + SumN(k - 1)
Delivered == SumN(MaxSends)
StreamChunk(s, chunkText) ==
    /\ ~crashed
    /\ sends[s].pc = "stream"
    /\ Delivered < MaxChunks
    /\ LET agentHistory == Get(chatHistories, TargetAgent(s))
       IN  IF chunkText = ""
           THEN /\ sends' = [sends EXCEPT ![s].n = @ + 1]
                /\ UNCHANGED <<chatHistories, crashed, authTimeout, localStorage>>
           ELSE IF sends[s].firstChunk
           THEN /\ sends' = [sends EXCEPT ![s].n = @ + 1, ![s].firstChunk = FALSE,
                                          ![s].fullResponse = @ \o <<chunkText>>]
                /\ chatHistories' =
                      Put(chatHistories, TargetAgent(s),
                          Append(agentHistory,
                                 AssistantMessage(<<chunkText>>, TargetAgent(s), s)))
                /\ authTimeout' = RearmedTimeout
                /\ localStorage' = PersistConversations(localStorage, user, chatHistories')
                /\ UNCHANGED crashed
           ELSE IF agentHistory = <<>>
           THEN /\ crashed' = TRUE
                /\ sends' = [sends EXCEPT ![s].n = @ + 1,
                                          ![s].fullResponse = @ \o <<chunkText>>]
                /\ UNCHANGED <<chatHistories, authTimeout, localStorage>>
           ELSE /\ sends' = [sends EXCEPT ![s].n = @ + 1,
                                          ![s].fullResponse = @ \o <<chunkText>>]
                /\ chatHistories' =
                      Put(chatHistories, TargetAgent(s),
                          MergeIntoLast(agentHistory, chunkText))
                /\ authTimeout' = RearmedTimeout
                /\ localStorage' = PersistConversations(localStorage, user, chatHistories')
                /\ UNCHANGED crashed
    /\ UNCHANGED providerVars
    /\ UNCHANGED <<historyVars, fileVars, user, isAuthLoading, selectedAgent, input, isLoading,
                   isStreaming, tokenCount, queryHistory, isGeneratingReport,
                   reportModalOpen, report, reportsStarted, signOuts>>

\* the stream throws
StreamFails(s) ==
    /\ ~crashed
    /\ sends[s].pc = "stream"
    /\ CatchAndFinally(s)

\* the stream is exhausted; countTokens of the response is called
StreamEnds(s) ==
    /\ ~crashed
    /\ sends[s].pc = "stream"
    /\ isStreaming' = FALSE
    /\ sends' = [sends EXCEPT ![s].pc = "countOutput", ![s].ended = TRUE]
    /\ UNCHANGED providerVars
    /\ UNCHANGED <<localStorage, historyVars, fileVars, user, isAuthLoading, authTimeout,
                   selectedAgent, chatHistories, input, isLoading, tokenCount,
                   queryHistory, isGeneratingReport, reportModalOpen, report,
                   reportsStarted, signOuts, crashed>>

\* countTokens of the response answers; the finally block
CountOutputTokens(s) ==
    /\ ~crashed
    /\ sends[s].pc = "countOutput"
    /\ tokenCount' = tokenCount + Len(sends[s].fullResponse)
    /\ isLoading' = FALSE
    /\ isStreaming' = FALSE
    /\ sends' = [sends EXCEPT ![s] = Finished(sends[s])]
    /\ UNCHANGED providerVars
    /\ UNCHANGED <<localStorage, historyVars, fileVars, user, isAuthLoading, authTimeout,
                   selectedAgent, chatHistories, input, queryHistory, isGeneratingReport,
                   reportModalOpen, report, reportsStarted, signOuts, crashed>>

CountOutputTokensFails(s) ==
    /\ ~crashed
    /\ sends[s].pc = "countOutput"
    /\ CatchAndFinally(s)

\* the Generate report button of the chat form (disabled while isLoading or
\* with at most one message), and the modal's close buttons
OpenReportModal ==
    /\ ChatShown
    /\ ~isLoading
    /\ Len(Get(chatHistories, selectedAgent)) > 1
    /\ ~reportModalOpen
    /\ reportModalOpen' = TRUE
    /\ UNCHANGED providerVars
    /\ UNCHANGED <<localStorage, historyVars, fileVars, user, isAuthLoading, authTimeout,
                   selectedAgent, chatHistories, input, isLoading, isStreaming, tokenCount,
                   queryHistory, isGeneratingReport, sends, report, reportsStarted, signOuts, crashed>>

CloseReportModal ==
    /\ ChatShown
    /\ reportModalOpen
    /\ reportModalOpen' = FALSE
    /\ UNCHANGED providerVars
    /\ UNCHANGED <<localStorage, historyVars, fileVars, user, isAuthLoading, authTimeout,
                   selectedAgent, chatHistories, input, isLoading, isStreaming, tokenCount,
                   queryHistory, isGeneratingReport, sends, report, reportsStarted, signOuts, crashed>>

\* the messages of a log that have role "assistant", in order
RECURSIVE AssistantContents(_)
AssistantContents(conversationData) ==
    IF conversationData = <<>> THEN <<>>
    ELSE (IF Head(conversationData).role = "assistant"
          THEN <<Head(conversationData).content>> ELSE <<>>)
             \o AssistantContents(Tail(conversationData))

\* Array.prototype.slice(0, 5)
SliceFirstFive(contents) == SubSeq(contents, 1, IF Len(contents) < 5 THEN Len(contents) ELSE 5)

\* analysisData.findings: .filter(assistant).map(content).slice(0, 5)
Findings(currentChatHistory) == SliceFirstFive(AssistantContents(currentChatHistory))

\* handleGenerateReport up to its await of fetch (the modal's button is
\* disabled while isGeneratingReport)
handleGenerateReport ==
    /\ ChatShown
    /\ reportModalOpen
    /\ ~isGeneratingReport
    /\ reportsStarted < MaxReports
    /\ Events < MaxEvents
    /\ Get(chatHistories, selectedAgent) # <<>>
    /\ isGeneratingReport' = TRUE
    /\ report' = [pc |-> "post", agent |-> selectedAgent,
                   findings |-> Findings(Get(chatHistories, selectedAgent))]
    /\ reportsStarted' = reportsStarted + 1
    /\ UNCHANGED providerVars
    /\ UNCHANGED <<localStorage, historyVars, fileVars, user, isAuthLoading, authTimeout,
                   selectedAgent, chatHistories, input, isLoading, isStreaming, tokenCount,
                   queryHistory, reportModalOpen, sends, signOuts, crashed>>

\* a failure message without the error text
ReportMessageGeneric(response) ==
    IF response.ok /\ response.status = "success"
    THEN <<"Report Generated Successfully">>
    ELSE <<"Report Generation Failed">>

\* the content of the message handleGenerateReport appends
ReportMessage(response) ==
    IF response.ok /\ response.status = "success"
    THEN <<"Report Generated Successfully">>
    ELSE <<"Report Generation Failed",
           IF response.error = "" THEN "Report generation failed" ELSE response.error>>

\* the report message takes the place of the log
AppendReportMessageOnly(agentHistory, reportMessage) == <<reportMessage>>

\* the updater of both report messages: [...(prev[selectedAgent] || []), message]
AppendReportMessage(agentHistory, reportMessage) == Append(agentHistory, reportMessage)

\* the backend answers: the rest of handleGenerateReport
ReportResponds(response) ==
    /\ ~crashed
    /\ report.pc = "post"
    /\ chatHistories' =
          Put(chatHistories, report.agent,
              AppendReportMessage(Get(chatHistories, report.agent),
                                  AssistantMessage(ReportMessage(response), report.agent, 0)))
    /\ isGeneratingReport' = FALSE
    /\ reportModalOpen' = FALSE
    /\ report' = NoReport
    /\ authTimeout' = RearmedTimeout
    /\ localStorage' = PersistConversations(localStorage, user, chatHistories')
    /\ UNCHANGED providerVars
    /\ UNCHANGED <<historyVars, fileVars, user, isAuthLoading, selectedAgent, input, isLoading,
                   isStreaming, tokenCount, queryHistory, sends, reportsStarted, signOuts, crashed>>

\* the request fails in transport: the catch and finally blocks of
\* handleGenerateReport
ReportRequestFails(message) ==
    ReportResponds([ok |-> FALSE, status |-> "", error |-> message])

Next ==
    \/ AuthTimeoutFires
    \/ \E name \in GuestNames : signInAsGuest(name)
    \/ handleSignOut
    \/ \E text \in Inputs : TypeInput(text)
    \/ \E agent \in Roster : SelectAgent(agent)
    \/ \E s \in SendIds : handleSendMessage(s)
    \/ \E s \in SendIds : CountInputTokens(s)
    \/ \E s \in SendIds : CountInputTokensFails(s)
    \/ \E s \in SendIds : StreamOpens(s)
    \/ \E s \in SendIds : StreamOpenFails(s)
    \/ \E s \in SendIds : \E chunkText \in ChunkTexts(Delivered + 1) :
          StreamChunk(s, chunkText)
    \/ \E s \in SendIds : StreamFails(s)
    \/ \E s \in SendIds : StreamEnds(s)
    \/ \E s \in SendIds : CountOutputTokens(s)
    \/ \E s \in SendIds : CountOutputTokensFails(s)
    \/ OpenReportModal
    \/ CloseReportModal
    \/ handleGenerateReport
    \/ \E response \in ReportResponses : ReportResponds(response)

----------------------------------------------------------------------------
(* Attachments: handleFileChange, the simulated-upload timers, removal *)

MAX_FILES == 5
MAX_FILE_SIZE_MB == 10
MAX_FILE_SIZE_BYTES == MAX_FILE_SIZE_MB * 1024 * 1024

\* a File of the file input; readable: its FileReader fires onload, not onerror
PickedFile(name, size, readable) == [name |-> name, size |-> size, readable |-> readable]

\* the selections the user makes
Batches ==
    { <<PickedFile("a.pdf", 1, TRUE)>>,
      <<PickedFile("a.pdf", 1, TRUE), PickedFile("b.pdf", 1, TRUE),
        PickedFile("c.pdf", 1, TRUE)>>,
      <<PickedFile("edge.pdf", MAX_FILE_SIZE_BYTES, TRUE),
        PickedFile("huge.pdf", MAX_FILE_SIZE_BYTES + 1, TRUE)>>,
      <<PickedFile("huge.pdf", MAX_FILE_SIZE_BYTES + 1, TRUE),
        PickedFile("huge2.pdf", MAX_FILE_SIZE_BYTES + 1, TRUE)>>,
      <<PickedFile("huge.pdf", MAX_FILE_SIZE_BYTES + 1, TRUE),
        PickedFile("bad.pdf", 1, FALSE)>> }

\* the three file errors: the text with the file name it carries
TooManyFiles == <<"You can upload a maximum of 5 files.">>
ExceedsLimit(name) == <<"File exceeds the 10MB size limit", name>>
ReadError(name) == <<"Error reading file", name>>

\* what reader.onload resolves with; id is history: the order of appending
UploadedFileState(file, id) ==
    [name |-> file.name, size |-> file.size, status |-> "uploading", progress |-> 0,
     id |-> id]

Oversized(file) == file.size > MAX_FILE_SIZE_BYTES

\* uploadedFiles.length + filesToUpload.length > MAX_FILES
TooMany(files, filesToUpload) == Len(files) + Len(filesToUpload) > MAX_FILES

\* the file error after the synchronous part of filesToUpload.map(processFile):
\* every oversized file sets it, the last one stays
RECURSIVE ErrorAfterMap(_, _)
ErrorAfterMap(filesToUpload, error) ==
    IF filesToUpload = <<>> THEN error
    ELSE ErrorAfterMap(Tail(filesToUpload),
                       IF Oversized(Head(filesToUpload))
                       THEN ExceedsLimit(Head(filesToUpload).name) ELSE error)

\* (await Promise.all(newFilesPromises)).filter(f => f !== null)
RECURSIVE NewFiles(_, _, _)
NewFiles(filesToUpload, resolved, nextId) ==
    IF filesToUpload = <<>> THEN <<>>
    ELSE IF Head(resolved) = "file"
         THEN <<UploadedFileState(Head(filesToUpload), nextId)>>
                  \o NewFiles(Tail(filesToUpload), Tail(resolved), nextId + 1)
         ELSE NewFiles(Tail(filesToUpload), Tail(resolved), nextId)

Tick(f) == IF f.progress < 100 THEN [f EXCEPT !.progress = @ + 10] ELSE f
ToProcessing(f) == [f EXCEPT !.status = "processing", !.progress = 100]
ToReady(f) == [f EXCEPT !.status = "ready"]

\* prev.map((f, i) => i === fileIndex ? change(f) : f), for each change
TickAt(files, fileIndex) ==
    [i \in 1..Len(files) |-> IF i = fileIndex THEN Tick(files[i]) ELSE files[i]]
ToProcessingAt(files, fileIndex) ==
    [i \in 1..Len(files) |-> IF i = fileIndex THEN ToProcessing(files[i]) ELSE files[i]]
ToReadyAt(files, fileIndex) ==
    [i \in 1..Len(files) |-> IF i = fileIndex THEN ToReady(files[i]) ELSE files[i]]

\* files.filter((_, i) => i !== index)
WithoutIndex(files, index) ==
    SubSeq(files, 1, index - 1) \o SubSeq(files, index + 1, Len(files))

\* handleFileChange up to its await of the readers
handleFileChange(k, filesToUpload) ==
    /\ ChatShown
    /\ selections[k].pc = "unused"
    /\ \A j \in SelectionIds : j < k => selections[j].pc # "unused"
    /\ IF TooMany(uploadedFiles, filesToUpload)
       THEN /\ fileError' = TooManyFiles
            /\ selections' = [selections EXCEPT ![k].pc = "done"]
       ELSE /\ fileError' = ErrorAfterMap(filesToUpload, NoError)
            /\ selections' =
                  [selections EXCEPT ![k] =
                      [pc |-> "reading",
                       currentFileCount |-> Len(uploadedFiles),
                       filesToUpload |-> filesToUpload,
                       resolved |-> [i \in 1..Len(filesToUpload) |->
                                        IF Oversized(filesToUpload[i]) THEN "null"
                                        ELSE "pending"]]]
    /\ UNCHANGED providerVars
    /\ UNCHANGED <<localStorage, historyVars, appVars, ragSources, uploadedFiles, procTimers,
                   readyTimers, attached, removals, ticks>>

\* reader.onload of the i-th file of a selection
ReaderLoads(k, i) ==
    /\ selections[k].pc = "reading"
    /\ i \in 1..Len(selections[k].resolved)
    /\ selections[k].resolved[i] = "pending"
    /\ selections[k].filesToUpload[i].readable
    /\ selections' = [selections EXCEPT ![k].resolved[i] = "file"]
    /\ UNCHANGED providerVars
    /\ UNCHANGED <<localStorage, historyVars, appVars, ragSources, uploadedFiles, fileError,
                   procTimers, readyTimers, attached, removals, ticks>>

\* reader.onerror of the i-th file of a selection
ReaderErrors(k, i) ==
    /\ selections[k].pc = "reading"
    /\ i \in 1..Len(selections[k].resolved)
    /\ selections[k].resolved[i] = "pending"
    /\ ~selections[k].filesToUpload[i].readable
    /\ selections' = [selections EXCEPT ![k].resolved[i] = "null"]
    /\ fileError' = IF crashed THEN fileError
                    ELSE ReadError(selections[k].filesToUpload[i].name)
    /\ UNCHANGED providerVars
    /\ UNCHANGED <<localStorage, historyVars, appVars, ragSources, uploadedFiles, procTimers,
                   readyTimers, attached, removals, ticks>>

\* handleFileChange after its await: the new files are appended and their
\* timers are set, each addressing currentFileCount + index
FilesAppended(k) ==
    /\ ~crashed
    /\ selections[k].pc = "reading"
    /\ \A i \in 1..Len(selections[k].resolved) : selections[k].resolved[i] # "pending"
    /\ LET newFiles == NewFiles(selections[k].filesToUpload, selections[k].resolved,
                                attached + 1)
       IN  /\ uploadedFiles' = uploadedFiles \o newFiles
           /\ procTimers' = procTimers \o
                 [index \in 1..Len(newFiles) |-> selections[k].currentFileCount + index]
           /\ attached' = attached + Len(newFiles)
    /\ selections' = [selections EXCEPT ![k] = [NoSelection EXCEPT !.pc = "done"]]
    /\ localStorage' = PersistSession(localStorage, user, selectedAgent, ragSources, uploadedFiles')
    /\ UNCHANGED providerVars
    /\ UNCHANGED <<historyVars, appVars, ragSources, fileError, readyTimers, removals, ticks>>

\* a turn of the 100 ms interval of a file whose 1000 ms timeout is pending
ProgressTick(t) ==
    /\ ~crashed
    /\ t \in 1..Len(procTimers)
    /\ ticks < MaxTicks
    /\ ticks' = ticks + 1
    /\ uploadedFiles' = TickAt(uploadedFiles, procTimers[t])
    /\ localStorage' = PersistSession(localStorage, user, selectedAgent, ragSources, uploadedFiles')
    /\ UNCHANGED providerVars
    /\ UNCHANGED <<historyVars, appVars, ragSources, fileError, selections, procTimers, readyTimers,
                   attached, removals>>

\* the oldest 1000 ms timeout fires: the interval is cleared, the file at the
\* index is set to processing and the 1500 ms timeout is set
ProcTimerFires ==
    /\ ~crashed
    /\ procTimers # <<>>
    /\ uploadedFiles' = ToProcessingAt(uploadedFiles, Head(procTimers))
    /\ procTimers' = Tail(procTimers)
    /\ readyTimers' = Append(readyTimers, Head(procTimers))
    /\ localStorage' = PersistSession(localStorage, user, selectedAgent, ragSources, uploadedFiles')
    /\ UNCHANGED providerVars
    /\ UNCHANGED <<historyVars, appVars, ragSources, fileError, selections, attached, removals, ticks>>

\* the oldest 1500 ms timeout fires: the file at the index is set to ready
ReadyTimerFires ==
    /\ ~crashed
    /\ readyTimers # <<>>
    /\ uploadedFiles' = ToReadyAt(uploadedFiles, Head(readyTimers))
    /\ readyTimers' = Tail(readyTimers)
    /\ localStorage' = PersistSession(localStorage, user, selectedAgent, ragSources, uploadedFiles')
    /\ UNCHANGED providerVars
    /\ UNCHANGED <<historyVars, appVars, ragSources, fileError, selections, procTimers, attached,
                   removals, ticks>>

\* the remove button of the attachment at an index
RemoveFile(index) ==
    /\ ChatShown
    /\ index \in 1..Len(uploadedFiles)
    /\ removals < MaxRemovals
    /\ removals' = removals + 1
    /\ uploadedFiles' = WithoutIndex(uploadedFiles, index)
    /\ localStorage' = PersistSession(localStorage, user, selectedAgent, ragSources, uploadedFiles')
    /\ UNCHANGED providerVars
    /\ UNCHANGED <<historyVars, appVars, ragSources, fileError, selections, procTimers, readyTimers,
                   attached, ticks>>

FilesNext ==
    \/ AuthTimeoutFires
    \/ \E name \in GuestNames : signInAsGuest(name)
    \/ \E k \in SelectionIds : \E filesToUpload \in Batches :
          handleFileChange(k, filesToUpload)
    \/ \E k \in SelectionIds : \E i \in 1..Len(selections[k].resolved) : ReaderLoads(k, i)
    \/ \E k \in SelectionIds : \E i \in 1..Len(selections[k].resolved) : ReaderErrors(k, i)
    \/ \E k \in SelectionIds : FilesAppended(k)
    \/ \E t \in 1..Len(procTimers) : ProgressTick(t)
    \/ ProcTimerFires
    \/ ReadyTimerFires
    \/ \E index \in 1..Len(uploadedFiles) : RemoveFile(index)

----------------------------------------------------------------------------
(* The store API called with arbitrary arguments *)

NoReturn == [user |-> NoEmail, conversations |-> EmptyMap]
NoClear == [user |-> NoEmail, removed |-> 0]
NothingSaved == [u \in StoreUsers |-> EmptyMap]

StoreInit ==
    /\ AppInit
    /\ localStorage = EmptyMap
    /\ returned = NoReturn
    /\ lastCleared = NoClear
    /\ saved = NothingSaved
    /\ pristine = TRUE

Fits(key) == Cardinality((DOMAIN localStorage) \cup {key}) <= MaxKeys

saveConversationToLocal(userEmail, agentRole, messages) ==
    /\ Fits(ConversationKey(userEmail, agentRole))
    /\ localStorage' = SaveConversation(localStorage, userEmail, agentRole, messages)
    /\ saved' = IF pristine
                THEN [saved EXCEPT ![userEmail] = Put(@, agentRole, messages)]
                ELSE saved
    /\ returned' = NoReturn
    /\ lastCleared' = NoClear
    /\ UNCHANGED <<pristine, appVars, fileVars, providerVars>>

saveUserSession(userEmail) ==
    /\ Fits(SessionKey(userEmail))
    /\ localStorage' = SaveSession(localStorage, userEmail, "Ada", "METHODS_SPECIALIST",
                                   InitialRagSources, <<>>)
    /\ returned' = NoReturn
    /\ lastCleared' = NoClear
    /\ UNCHANGED <<saved, pristine, appVars, fileVars, providerVars>>

clearUserData(userEmail) ==
    /\ localStorage' = ClearUserData(localStorage, userEmail)
    /\ returned' = NoReturn
    /\ lastCleared' =
          [user |-> userEmail,
           removed |-> Cardinality(DOMAIN localStorage) - Cardinality(DOMAIN localStorage')]
    /\ pristine' = FALSE
    /\ saved' = NothingSaved
    /\ UNCHANGED <<appVars, fileVars, providerVars>>

getAllUserConversations(userEmail) ==
    /\ \E order \in KeyOrders(localStorage) :
          returned' = [user |-> userEmail,
                       conversations |->
                           GetAllUserConversations(localStorage, order, userEmail)]
    /\ UNCHANGED <<localStorage, lastCleared, saved, pristine, appVars, fileVars, providerVars>>

\* the environment: another script, tab or a cut-off write leaves a text under
\* a conversation key that JSON.parse rejects
CorruptEntry(userEmail, agentRole) ==
    /\ Fits(ConversationKey(userEmail, agentRole))
    /\ Get(localStorage, ConversationKey(userEmail, agentRole)) # Malformed
    /\ localStorage' = Put(localStorage, ConversationKey(userEmail, agentRole), Malformed)
    /\ returned' = NoReturn
    /\ lastCleared' = NoClear
    /\ pristine' = FALSE
    /\ saved' = NothingSaved
    /\ UNCHANGED <<appVars, fileVars, providerVars>>

StoreNext ==
    \/ \E u \in StoreUsers, a \in AgentRoles, m \in StoreMessages :
          saveConversationToLocal(u, a, m)
    \/ \E u \in StoreUsers : saveUserSession(u)
    \/ \E u \in StoreUsers : clearUserData(u)
    \/ \E u \in StoreUsers : getAllUserConversations(u)
    \/ \E u \in StoreUsers, a \in AgentRoles : CorruptEntry(u, a)

----------------------------------------------------------------------------
(* A session in progress *)

\* the exchanges a session has seen before the report is asked for
MaxExchanges == 6

\* [historyEntry, ...prev.slice(0, 49)] keeps 1 + 49 entries; the side log
\* holds QUERY_CAP - MaxOlder .. QUERY_CAP entries to start with
QUERY_CAP == 50
MaxOlder == 2

\* the prompt of every earlier exchange, and the response to the i-th
Prompt == "hello "
Reply(i) == <<"answer ", ToString(i)>>

\* the selected specialist's log, the token budget and the side log after n
\* exchanges that were answered in full: handleSendMessage run n times
RECURSIVE AfterExchanges(_, _, _)
AfterExchanges(n, agent, name) ==
    IF n = 0
    THEN [log |-> InitialHistories(EmptyMap, name)[agent], tokenCount |-> 0, queryHistory |-> <<>>]
    ELSE LET before == AfterExchanges(n - 1, agent, name)
         IN  [log |-> Append(OptimisticAppend(before.log, UserMessage(Prompt)),
                             AssistantMessage(Reply(n), agent, 0)),
              tokenCount |-> before.tokenCount
                                + CountTokens(InputContents(before.log, Prompt, InitialRagSources, <<>>))
                                + Len(Reply(n)),
              queryHistory |-> PushQuery(before.queryHistory, HistoryEntry(Prompt, agent, n))]

\* the side log after n submits whose input estimate failed, a sign-out and a
\* new sign-in: handleSignOut resets neither queryHistory nor tokenCount
RECURSIVE AfterSubmits(_, _)
AfterSubmits(n, agent) ==
    IF n = 0 THEN <<>>
    ELSE PushQuery(AfterSubmits(n - 1, agent), HistoryEntry(Prompt, agent, n))

\* a guest signed in, with the given logs, budget and side log
SessionInit(name, agent, histories, tokens, queries, sources, files) ==
    LET currentUser == [email |-> GuestEmail, name |-> name]
    IN  /\ user = currentUser
        /\ isAuthLoading = FALSE
        /\ authTimeout = FALSE
        /\ selectedAgent = agent
        /\ chatHistories = histories
        /\ input = ""
        /\ isLoading = FALSE
        /\ isStreaming = FALSE
        /\ tokenCount = tokens
        /\ queryHistory = queries
        /\ isGeneratingReport = FALSE
        /\ reportModalOpen = FALSE
        /\ sends = [s \in SendIds |-> Unused]
        /\ report = NoReport
        /\ reportsStarted = 0
        /\ signOuts = 0
        /\ crashed = FALSE
        /\ ragSources = sources
        /\ uploadedFiles = files
        /\ fileError = NoError
        /\ selections = [k \in SelectionIds |-> NoSelection]
        /\ procTimers = <<>>
        /\ readyTimers = <<>>
        /\ attached = 0
        /\ removals = 0
        /\ ticks = 0
        /\ ProviderInit
        /\ localStorage =
              PersistSession(PersistConversations(EmptyMap, currentUser, histories),
                             currentUser, agent, sources, files)
        /\ returned = NoReturn
        /\ lastCleared = NoClear
        /\ saved = NothingSaved
        /\ pristine = TRUE

\* the chat after 0 .. MaxExchanges answered exchanges with one specialist
PayloadInit ==
    \E name \in GuestNames, agent \in Roster, n \in 0..MaxExchanges :
        LET past == AfterExchanges(n, agent, name)
        IN  SessionInit(name, agent,
                        [InitialHistories(EmptyMap, name) EXCEPT ![agent] = past.log],
                        past.tokenCount, past.queryHistory, InitialRagSources, <<>>)

\* attachments restored from the session snapshot in each status; no timer
\* is pending for them
Restored(name, id, status) ==
    LET f == UploadedFileState(PickedFile(name, 1, TRUE), id)
    IN  CASE status = "uploading" -> f
          [] status = "processing" -> ToProcessing(f)
          [] OTHER -> ToReady(ToProcessing(f))

AttachmentSamples ==
    { <<>>,
      <<Restored("a.pdf", 1, "ready")>>,
      <<Restored("a.pdf", 1, "uploading"), Restored("b.pdf", 2, "ready")>>,
      <<Restored("a.pdf", 1, "ready"), Restored("b.pdf", 2, "processing"),
        Restored("c.pdf", 3, "ready")>> }

\* the chat of a guest with attachments, after 0 or 1 exchanges
TurnInit ==
    \E name \in GuestNames, n \in 0..1, files \in AttachmentSamples :
        LET agent == "METHODS_SPECIALIST"
            past == AfterExchanges(n, agent, name)
        IN  SessionInit(name, agent,
                        [InitialHistories(EmptyMap, name) EXCEPT ![agent] = past.log],
                        past.tokenCount, past.queryHistory, InitialRagSources, files)

\* one turn of the chat: the data sources are chosen, a prompt is sent
TurnNext ==
    \/ \E text \in Inputs : TypeInput(text)
    \/ \E sourceKey \in DOMAIN InitialRagSources : ToggleRagSource(sourceKey)
    \/ handleSendMessage(1)
    \/ CountInputTokens(1)
    \/ CountInputTokensFails(1)
    \/ StreamOpens(1)
    \/ StreamOpenFails(1)
    \/ \E chunkText \in ChunkTexts(Delivered + 1) : StreamChunk(1, chunkText)
    \/ StreamFails(1)
    \/ StreamEnds(1)
    \/ CountOutputTokens(1)
    \/ CountOutputTokensFails(1)

\* the page is loaded again: the component state is initial, the store is kept
PageReload ==
    /\ user' = NoUser
    /\ isAuthLoading' = TRUE
    /\ authTimeout' = TRUE
    /\ selectedAgent' = "METHODS_SPECIALIST"
    /\ chatHistories' = EmptyMap
    /\ input' = ""
    /\ isLoading' = FALSE
    /\ isStreaming' = FALSE
    /\ tokenCount' = 0
    /\ queryHistory' = <<>>
    /\ isGeneratingReport' = FALSE
    /\ reportModalOpen' = FALSE
    /\ sends' = [s \in SendIds |-> Unused]
    /\ report' = NoReport
    /\ reportsStarted' = 0
    /\ signOuts' = 0
    /\ crashed' = FALSE
    /\ ragSources' = InitialRagSources
    /\ uploadedFiles' = <<>>
    /\ fileError' = NoError
    /\ selections' = [k \in SelectionIds |-> NoSelection]
    /\ procTimers' = <<>>
    /\ readyTimers' = <<>>
    /\ attached' = 0
    /\ removals' = 0
    /\ ticks' = 0
    /\ UNCHANGED providerVars
    /\ UNCHANGED <<localStorage, historyVars>>

\* reloads of the page and the sign-ins that follow them
RestoreNext ==
    \/ PageReload
    \/ AuthTimeoutFires
    \/ \E name \in GuestNames : signInAsGuest(name)
    \/ \E text \in Inputs : TypeInput(text)
    \/ \E agent \in Roster : SelectAgent(agent)

\* the guest who signs in after the first one has signed out
NextGuests == {"Bob"}

\* the chat of the first guest, just signed in
HandoverInit ==
    \E name \in GuestNames, agent \in Roster :
        SessionInit(name, agent, InitialHistories(EmptyMap, name), 0, <<>>,
                    InitialRagSources, <<>>)

\* the first guest chats and signs out, the next guest signs in and chats
HandoverNext ==
    \/ handleSignOut
    \/ \E name \in NextGuests : signInAsGuest(name)
    \/ \E text \in Inputs : TypeInput(text)
    \/ \E s \in SendIds : handleSendMessage(s)
    \/ \E s \in SendIds : CountInputTokens(s)
    \/ \E s \in SendIds : CountInputTokensFails(s)
    \/ \E s \in SendIds : StreamOpens(s)
    \/ \E s \in SendIds : StreamOpenFails(s)
    \/ \E s \in SendIds : \E chunkText \in ChunkTexts(Delivered + 1) :
          StreamChunk(s, chunkText)
    \/ \E s \in SendIds : StreamFails(s)
    \/ \E s \in SendIds : StreamEnds(s)
    \/ \E s \in SendIds : CountOutputTokens(s)
    \/ \E s \in SendIds : CountOutputTokensFails(s)

\* the report dialogue
PayloadNext ==
    \/ \E text \in Inputs : TypeInput(text)
    \/ \E agent \in Roster : SelectAgent(agent)
    \/ OpenReportModal
    \/ CloseReportModal
    \/ handleGenerateReport
    \/ \E response \in ReportResponses : ReportResponds(response)
    \/ \E message \in TransportErrors : ReportRequestFails(message)

\* the chat of a guest who signed in again, the side log nearly full
HistoryInit ==
    \E name \in GuestNames, agent \in Roster, n \in (QUERY_CAP - MaxOlder)..QUERY_CAP :
        SessionInit(name, agent, InitialHistories(EmptyMap, name), 0, AfterSubmits(n, agent),
                    InitialRagSources, <<>>)

\* submits, each failing at the input estimate
HistoryNext ==
    \/ \E text \in Inputs : TypeInput(text)
    \/ \E agent \in Roster : SelectAgent(agent)
    \/ \E s \in SendIds : handleSendMessage(s)
    \/ \E s \in SendIds : CountInputTokensFails(s)

Init == StoreInit

\* the store API alone
StoreSpec == Init /\ [][StoreNext]_vars

\* the application
Spec == Init /\ [][Next]_vars

\* a call of send s returns or fails, or its stream ends or fails
SendProgress(s) ==
    \/ CountInputTokens(s)
    \/ CountInputTokensFails(s)
    \/ StreamOpens(s)
    \/ StreamOpenFails(s)
    \/ StreamEnds(s)
    \/ StreamFails(s)
    \/ CountOutputTokens(s)
    \/ CountOutputTokensFails(s)

\* the application, when every token-estimate call returns or fails and every
\* stream is finite or fails
LiveSpec == Spec /\ \A s \in SendIds : WF_vars(SendProgress(s))

\* identity resolution and the sessions that follow it
IdentityNext ==
    \/ AuthTimeoutFires
    \/ \E name \in GuestNames : signInAsGuest(name)
    \/ handleSignOut
    \/ \E text \in Inputs : TypeInput(text)
    \/ \E agent \in Roster : SelectAgent(agent)
    \/ \E s \in SendIds : handleSendMessage(s)
    \/ \E s \in SendIds : CountInputTokensFails(s)

\* setTimeout: a pending timer fires
IdentitySpec == Init /\ [][IdentityNext]_vars /\ WF_vars(AuthTimeoutFires)

\* the attachments of a signed-in user
FilesSpec == Init /\ [][FilesNext]_vars

\* the report dialogue of a session in progress
PayloadSpec == PayloadInit /\ [][PayloadNext]_vars

\* a session in progress, and the page loaded again
RestoreSpec == PayloadInit /\ [][RestoreNext]_vars

\* one guest after another on the same page
HandoverSpec == HandoverInit /\ [][HandoverNext]_vars

\* the auth provider alone, over page loads
AuthSpec == Init /\ [][AuthNext]_vars

\* the turns of a chat with attachments and data sources
TurnSpec == TurnInit /\ [][TurnNext]_vars

\* the side log near its cap
HistorySpec == HistoryInit /\ [][HistoryNext]_vars

----------------------------------------------------------------------------
(* Properties of the controller *)

\* send s is waiting for its token estimate or for its stream, or is
\* receiving increments
InFlight(s) == sends[s].pc \in {"countInput", "open", "stream"}

\* this step is the submit that starts send s
Submitted(s) == sends[s].pc = "unused" /\ sends'[s].pc # "unused"

\* this step is a step of send s: the submit, the answer or failure of one of
\* its calls, or a turn of its loop
StepOf(s) == sends'[s] # sends[s]

\* C1: at most one send is in flight at a time: a submit is accepted (appends
\* its user message and starts its request) only when no earlier send is
\* waiting for its token estimate or receiving stream increments, and neither
\* isLoading nor isStreaming is set.
C1_OneSendInFlight ==
    [][\A s \in SendIds :
          Submitted(s) =>
              /\ ~isLoading
              /\ ~isStreaming
              /\ \A t \in SendIds \ {s} : ~InFlight(t)]_vars

\* C2: when the stream of a send has delivered N >= 1 non-empty increments and
\* ended, the content of the assistant message that send created is the
\* concatenation of the N increment texts in arrival order, whatever was
\* interleaved with the increments.
C2_Concatenation ==
    \A s \in SendIds :
        (sends[s].ended /\ sends[s].fullResponse # <<>>) =>
            LET log == Get(chatHistories, sends[s].agent)
            IN  \A i \in 1..Len(log) :
                    log[i].sid = s => log[i].content = sends[s].fullResponse

\* C3: a message is immutable once appended, except the last assistant message
\* of a log while its own stream is in progress: a step changes the content of
\* a message only if the message is the assistant message created by a stream
\* that is still running, it is the last of its log, and the step is a turn of
\* that stream's loop.  No user message, welcome, apology or report message
\* ever changes.
C3_MessagesImmutable ==
    [][\A a \in Roster :
          LET old == Get(chatHistories, a)
              new == Get(chatHistories', a)
          IN  \A i \in 1..Len(old) :
                  (i <= Len(new) /\ new[i].content # old[i].content) =>
                      /\ old[i].role = "assistant"
                      /\ old[i].sid # 0
                      /\ sends[old[i].sid].pc = "stream"
                      /\ sends'[old[i].sid].n = sends[old[i].sid].n + 1
                      /\ i = Len(old)]_vars

\* the positions of a log holding the assistant message of a stream that has
\* not ended
Partial(log) ==
    {i \in 1..Len(log) : log[i].sid # 0 /\ sends[log[i].sid].pc = "stream"}

\* C4: in every reachable state each specialist log holds at most one
\* assistant message whose stream has not yet ended, and that message is the
\* last element of the log.
C4_OnePartialAtTail ==
    \A a \in Roster :
        LET log == Get(chatHistories, a)
        IN  /\ Cardinality(Partial(log)) <= 1
            /\ \A i \in Partial(log) : i = Len(log)

\* C5: every mutation made by a send (user message, streamed increments,
\* apology) goes to the log of the specialist that was selected when the send
\* was submitted: a step of a send leaves every other specialist's log as it
\* is, whichever specialist is selected at the time of the step.
C5_SendWritesCapturedLog ==
    [][\A s \in SendIds :
          StepOf(s) =>
              LET captured == IF sends[s].pc = "unused" THEN selectedAgent
                              ELSE sends[s].agent
              IN  \A a \in Roster \ {captured} :
                      Get(chatHistories', a) = Get(chatHistories, a)]_vars

\* a stream for one specialist is running while another specialist is
\* selected, and the message it created is in the log of the specialist of
\* its submit and not in the selected specialist's log
C5_Witness ==
    \E s \in SendIds :
        /\ sends[s].pc = "stream"
        /\ sends[s].agent # selectedAgent
        /\ Len(sends[s].fullResponse) > 1
        /\ \E i \in 1..Len(Get(chatHistories, sends[s].agent)) :
              /\ Get(chatHistories, sends[s].agent)[i].sid = s
              /\ Get(chatHistories, sends[s].agent)[i].content = sends[s].fullResponse
        /\ \A i \in 1..Len(Get(chatHistories, selectedAgent)) :
              Get(chatHistories, selectedAgent)[i].sid # s

\* C10: a submit of a non-empty (non-whitespace) input while Idle appends
\* exactly one user message carrying that input to the selected specialist's
\* log, keeps every message already in that log, and clears the input, all
\* in the step of the submit: the token-estimate call is still pending and no
\* other call of the send has been made when the step is over.
C10_SubmitAppendsUserMessage ==
    [][\A s \in SendIds :
          (Submitted(s) /\ ~isLoading /\ ~isStreaming) =>
              /\ Trim(input) # ""
              /\ Get(chatHistories', selectedAgent) =
                    Get(chatHistories, selectedAgent) \o <<UserMessage(input)>>
              /\ input' = ""
              /\ sends'[s].pc = "countInput"
              /\ tokenCount' = tokenCount
              /\ selectedAgent' = selectedAgent]_vars

\* a submit made while Idle has just been accepted: its token estimate is
\* pending, the input is empty, and the log of its specialist ends with the
\* user message after the messages it held before
C10_Witness ==
    \E s \in SendIds :
        /\ sends[s].pc = "countInput"
        /\ \A t \in SendIds \ {s} : sends[t].pc \in {"unused", "done"}
        /\ isLoading
        /\ ~isStreaming
        /\ input = ""
        /\ LET log == Get(chatHistories, sends[s].agent)
           IN  /\ Len(log) >= 2
               /\ log[Len(log)] = UserMessage("hello ")
               /\ log[1].role = "assistant"

\* this step is the failure of a call or of the stream of send s
Fails(s) ==
    \/ CountInputTokensFails(s)
    \/ StreamOpenFails(s)
    \/ StreamFails(s)
    \/ CountOutputTokensFails(s)

\* C11: on a failure of the input token estimate, of opening the stream, of
\* the stream while it delivers increments, or of the output token estimate,
\* the send appends exactly one static apology assistant message to the log
\* of the specialist it was sent to, leaves every message already in that log
\* (a partial response included) as it is, and sets isLoading and isStreaming
\* to false.
C11_FailureAppendsApology ==
    [][\A s \in SendIds :
          Fails(s) =>
              LET log == Get(chatHistories, sends[s].agent)
                  after == Get(chatHistories', sends[s].agent)
              IN  /\ Len(after) = Len(log) + 1
                  /\ SubSeq(after, 1, Len(log)) = log
                  /\ after[Len(after)].role = "assistant"
                  /\ after[Len(after)].content =
                        <<"Sorry, I encountered an error. Please try again.">>
                  /\ ~isLoading'
                  /\ ~isStreaming'
                  /\ sends'[s].pc = "done"]_vars

\* a stream failed after it had delivered a partial response: the partial
\* message is followed by the apology and both flags are false
C11_Witness ==
    /\ ~isLoading
    /\ ~isStreaming
    /\ \E a \in Roster :
          LET log == Get(chatHistories, a)
          IN  \E i \in 1..Len(log) :
                  /\ i < Len(log)
                  /\ log[i].sid # 0
                  /\ sends[log[i].sid].pc = "done"
                  /\ log[i].content # <<>>
                  /\ log[i + 1].content =
                        <<"Sorry, I encountered an error. Please try again.">>

----------------------------------------------------------------------------
(* Properties of the attachments *)

\* this step is the synchronous part of the k-th file selection, which passed
\* the test on the number of files
SelectionAccepted(k) == selections[k].pc = "unused" /\ selections'[k].pc = "reading"

\* C12: the attachment list never holds more than 5 files in any reachable
\* state, a second selection made while the files of an earlier one are still
\* being read included.
C12_AtMostFiveFiles == Len(uploadedFiles) <= 5

\* C13: a file larger than 10 MB (10 * 1024 * 1024 bytes) is never added to
\* the attachment list, and when a selection holds such a file the file error
\* recorded by the selection names that file.
C13_OversizedRejectedAndNamed ==
    [][/\ \A i \in 1..Len(uploadedFiles') : uploadedFiles'[i].size <= 10 * 1024 * 1024
       /\ \A k \in SelectionIds :
             SelectionAccepted(k) =>
                 \A i \in 1..Len(selections'[k].filesToUpload) :
                     LET file == selections'[k].filesToUpload[i]
                     IN  file.size > 10 * 1024 * 1024 =>
                             /\ Len(fileError') = 2
                             /\ fileError'[2] = file.name]_vars

\* uploading -> processing -> ready
StatusRank(status) ==
    CASE status = "uploading" -> 1 [] status = "processing" -> 2 [] status = "ready" -> 3

\* C14: every attachment moves monotonically through uploading -> processing
\* -> ready: no step takes an attachment that stays in the list back to an
\* earlier status, under any interleaving of selections, removals and timers.
C14_StatusMonotone ==
    [][\A i \in 1..Len(uploadedFiles) : \A j \in 1..Len(uploadedFiles') :
          uploadedFiles'[j].id = uploadedFiles[i].id =>
              StatusRank(uploadedFiles'[j].status) >= StatusRank(uploadedFiles[i].status)]_vars

----------------------------------------------------------------------------
(* Properties of the store *)

\* the records the store holds for a user: its conversation logs and its session
OwnKeys(userEmail) ==
    {ConversationKey(userEmail, a) : a \in AgentRoles} \cup {SessionKey(userEmail)}

\* C6: after a sequence of saveConversationToLocal calls, getAllUserConversations(user)
\* returns a mapping whose keys are exactly the specialist identifiers saved for
\* the user and whose values are the message sequences last saved for them.
C6_LoadAllRoundTrip ==
    (returned.user # NoEmail /\ pristine) =>
        returned.conversations = saved[returned.user]

\* C7: when exactly one stored record of the user is malformed, the mapping
\* returned by getAllUserConversations(user) still contains the messages of
\* every other well-formed log of that user, whatever the enumeration order.
C7_LoadAllSkipsCorrupt ==
    returned.user # NoEmail =>
        LET u == returned.user
            logs == {ConversationKey(u, a) : a \in AgentRoles} \cap DOMAIN localStorage
            bad == {k \in logs : ~CanParse(localStorage[k])}
        IN  Cardinality(bad) = 1 =>
                \A k \in logs \ bad :
                    \E r \in DOMAIN returned.conversations :
                        returned.conversations[r] = Parse(localStorage[k]).messages

\* C8: clearUserData(user) removes every conversation log and the session
\* snapshot of that user and changes no stored record of any other user.
C8_ClearFrame ==
    [][\A u \in StoreUsers :
          clearUserData(u) =>
             /\ OwnKeys(u) \cap DOMAIN localStorage' = {}
             /\ \A v \in StoreUsers \ {u} : \A k \in OwnKeys(v) :
                   /\ (k \in DOMAIN localStorage) = (k \in DOMAIN localStorage')
                   /\ k \in DOMAIN localStorage => localStorage'[k] = localStorage[k]
      ]_vars

\* C9: clearUserData(user) followed by getAllUserConversations(user), with no
\* write in between, returns an empty mapping.
C9_ClearThenLoadEmpty ==
    (returned.user # NoEmail /\ returned.user = lastCleared.user) =>
        returned.conversations = EmptyMap

\* a load of a user right after a clear that removed records of the store,
\* while records of another user remain
C9_Witness ==
    /\ returned.user # NoEmail
    /\ returned.user = lastCleared.user
    /\ lastCleared.removed > 0
    /\ localStorage # EmptyMap

----------------------------------------------------------------------------
(* Properties of the session *)

\* C15: the token budget never decreases: the answer of the input estimate
\* and, after the stream is exhausted, the answer of the output estimate add
\* to it, and no other step (sign-out, specialist switch, a failing send)
\* lowers or resets it.
C15_TokenCountMonotone ==
    [][/\ tokenCount' >= tokenCount
       /\ \A s \in SendIds :
             /\ (sends[s].pc = "countInput" /\ sends'[s].pc = "open") =>
                    tokenCount' > tokenCount
             /\ (CountOutputTokens(s) /\ sends[s].fullResponse # <<>>) =>
                    tokenCount' > tokenCount
             /\ Fails(s) => tokenCount' = tokenCount
       /\ user' # user => tokenCount' = tokenCount
       /\ selectedAgent' # selectedAgent => tokenCount' = tokenCount]_vars

\* the user has signed out after a send that was counted, and the budget is
\* still what the send made it
C15_Witness ==
    /\ user = NoUser
    /\ signOuts > 0
    /\ tokenCount > 1
    /\ \E s \in SendIds : sends[s].pc = "done"

\* C16: once sign-out has completed (user is none) every specialist log held
\* by the controller is empty and the store holds no conversation log and no
\* session snapshot of the signed-out user, also when a send was awaiting its
\* estimate or streaming at the moment of sign-out.
C16_SignOutClears ==
    (user = NoUser /\ signOuts > 0) =>
        /\ \A a \in Roster : Get(chatHistories, a) = <<>>
        /\ \A key \in DOMAIN localStorage : key \notin OwnKeys(GuestEmail)

\* C17: at hydration, the identity change to a signed-in user, every
\* specialist for which the store returns no messages gets a log of exactly
\* one message, the assistant welcome message of that specialist, and every
\* specialist for which the store returns a non-empty message sequence gets
\* exactly that sequence.
C17_HydrateOrSeed ==
    [][(user = NoUser /\ user' # NoUser) =>
          \E order \in KeyOrders(localStorage) :
              LET savedConversations ==
                      GetAllUserConversations(localStorage, order, user'.email)
              IN  \A a \in Roster :
                      Get(chatHistories', a) =
                          IF Get(savedConversations, a) = <<>>
                          THEN <<[role |-> "assistant", content |-> <<"Welcome">>,
                                  agentId |-> a, sid |-> 0]>>
                          ELSE savedConversations[a]]_vars

\* C18: when the report backend answers with a status other than "success"
\* and a message M, or the request fails in transport, the report dispatch
\* appends exactly one assistant failure message containing the error text to
\* the log and resets isGeneratingReport to false.
C18_ReportFailureMessage ==
    [][\A response \in ReportResponses
                         \cup {[ok |-> FALSE, status |-> "", error |-> m] : m \in TransportErrors} :
          (ReportResponds(response) /\ ~(response.ok /\ response.status = "success")) =>
              LET log == Get(chatHistories, report.agent)
                  after == Get(chatHistories', report.agent)
              IN  /\ Len(after) = Len(log) + 1
                  /\ SubSeq(after, 1, Len(log)) = log
                  /\ after[Len(after)].role = "assistant"
                  /\ after[Len(after)].content[1] = "Report Generation Failed"
                  /\ \E i \in 1..Len(after[Len(after)].content) :
                        after[Len(after)].content[i] = response.error
                  /\ ~isGeneratingReport']_vars

\* the backend answered {status: "error", message: "boom"}: a log ends with
\* the failure message that carries "boom" and the flag is reset
C18_Witness ==
    /\ ~isGeneratingReport
    /\ reportsStarted > 0
    /\ \E a \in Roster :
          LET log == Get(chatHistories, a)
          IN  /\ Len(log) > 1
              /\ log[Len(log)].content = <<"Report Generation Failed", "boom">>

\* C19: the analysis payload contains the last five assistant messages: for
\* a log with more than five assistant messages, findings equals the contents
\* of the five most recent assistant messages, in order.
C19_FindingsAreLastFive ==
    [][handleGenerateReport =>
          LET contents == AssistantContents(Get(chatHistories, selectedAgent))
              n == Len(contents)
          IN  report'.findings = SubSeq(contents, IF n > 5 THEN n - 4 ELSE 1, n)]_vars

\* C20: the query side log never holds more than 50 entries; each accepted
\* submit puts its entry {query text, specialist name, timestamp} at the
\* front, and when the log already holds 50 entries the oldest one is evicted
\* and the other 49 keep their relative order.
C20_QueryHistoryCapped ==
    /\ Len(queryHistory) <= 50
    /\ [][/\ Len(queryHistory') <= 50
          /\ \A s \in SendIds :
                handleSendMessage(s) =>
                    LET kept == IF Len(queryHistory) = 50 THEN 49 ELSE Len(queryHistory)
                    IN  /\ Len(queryHistory') = kept + 1
                        /\ queryHistory'[1].query = Trim(input)
                        /\ queryHistory'[1].agent = selectedAgent
                        /\ \A i \in 1..Len(queryHistory) :
                              queryHistory'[1].timestamp > queryHistory[i].timestamp
                        /\ \A i \in 1..kept : queryHistory'[i + 1] = queryHistory[i]]_vars

\* a submit on a full side log: 51 submits so far, 50 entries, the first gone
C20_Witness ==
    /\ Len(queryHistory) = 50
    /\ queryHistory[1].timestamp = 51
    /\ queryHistory[50].timestamp = 2

----------------------------------------------------------------------------
(* Properties of the flags *)

\* C24: isLoading is true whenever some send awaits its input token estimate
\* or the opening of its stream, and isStreaming is true whenever some send
\* is still receiving increments.
C24_FlagsReflectSends ==
    ~crashed =>
        \A s \in SendIds :
            /\ sends[s].pc \in {"countInput", "open"} => isLoading
            /\ sends[s].pc = "stream" => isStreaming

\* send s was accepted and has not returned
Active(s) == sends[s].pc \notin {"unused", "done"}

\* C23: every accepted send eventually ends, by success or by the error
\* path, and isLoading and isStreaming are both false once no send remains
\* active.
C23_SendReturnsToIdle ==
    /\ \A s \in SendIds : Active(s) ~> (sends[s].pc = "done")
    /\ []((\A s \in SendIds : ~Active(s)) => (~isLoading /\ ~isStreaming))

----------------------------------------------------------------------------
(* Properties of identity resolution *)

\* C21: identity resolution never hangs: while isAuthLoading the fallback
\* timeout stays pending and no user is set, and isAuthLoading eventually
\* becomes false with user still none (the login screen).
C21_AuthLoadingEnds ==
    /\ [](isAuthLoading => (authTimeout /\ user = NoUser))
    /\ <>(~isAuthLoading /\ user = NoUser)

\* the login screen, reached by the timeout alone
C21_Witness ==
    /\ ~isAuthLoading
    /\ ~authTimeout
    /\ user = NoUser
    /\ signOuts = 0
    /\ DOMAIN chatHistories = {}

----------------------------------------------------------------------------
(* Properties of the report dispatch *)

\* C27: a report dispatch performs one POST and no retry, appends exactly one
\* assistant message (success or failure) to the log of the specialist that
\* was selected when the dispatch started, leaves the messages already in
\* that log as they are, and ends with isGeneratingReport false.
C27_OneReportMessage ==
    [][/\ handleGenerateReport =>
              /\ report.pc = "idle"
              /\ report'.pc = "post"
              /\ report'.agent = selectedAgent
              /\ reportsStarted' = reportsStarted + 1
       /\ (report.pc = "post" /\ report' # report) =>
              LET log == Get(chatHistories, report.agent)
                  after == Get(chatHistories', report.agent)
              IN  /\ report'.pc = "idle"
                  /\ reportsStarted' = reportsStarted
                  /\ after = log \o <<after[Len(after)]>>
                  /\ after[Len(after)].role = "assistant"
                  /\ after[Len(after)].content[1]
                        \in {"Report Generated Successfully", "Report Generation Failed"}
                  /\ \A a \in (DOMAIN chatHistories) \ {report.agent} :
                        Get(chatHistories', a) = chatHistories[a]
                  /\ ~isGeneratingReport'
       /\ (report.pc # "post" /\ ~handleGenerateReport) => report' = report]_vars

\* a report answered with success while the specialist selected at dispatch
\* is no longer the selected one
C27_Witness ==
    /\ reportsStarted = 1
    /\ report.pc = "idle"
    /\ ~isGeneratingReport
    /\ \E a \in Roster \ {selectedAgent} :
          LET log == Get(chatHistories, a)
          IN  /\ Len(log) > 2
              /\ log[Len(log)].content = <<"Report Generated Successfully">>

----------------------------------------------------------------------------
(* Properties of a turn *)

\* the attachments in status ready, in the order of the list
RECURSIVE ReadyNames(_)
ReadyNames(files) ==
    IF files = <<>> THEN <<>>
    ELSE (IF Head(files).status = "ready" THEN <<Head(files).name>> ELSE <<>>)
             \o ReadyNames(Tail(files))

\* the enabled toggles, in the order of the selector
EnabledSources ==
    LET on(k) == IF ragSources[k] THEN <<k>> ELSE <<>>
    IN  on("standards") \o on("internal") \o on("sensors") \o on("workorders")

\* the pieces of a comma-joined list that are not separators
RECURSIVE Items(_)
Items(joined) ==
    IF joined = <<>> THEN <<>>
    ELSE (IF Head(joined) = ", " THEN <<>> ELSE <<Head(joined)>>) \o Items(Tail(joined))

\* C25: the request payload of a send is the log as it was before the new
\* user message, in order, with role assistant mapped to "model" and user to
\* "user", followed by one user entry that holds exactly the attachments in
\* status ready at submit time and the user text prefixed with the
\* comma-joined list of the enabled data-source toggles.
C25_RequestPayload ==
    [][\A s \in SendIds :
          Submitted(s) =>
              LET log == Get(chatHistories, selectedAgent)
                  contents == sends'[s].inputContents
                  entry == contents[Len(contents)]
                  ready == ReadyNames(uploadedFiles)
                  prompt == entry.parts[Len(entry.parts)]
                  listed == SubSeq(prompt.value, 2, Len(prompt.value) - 2)
              IN  /\ Len(contents) = Len(log) + 1
                  /\ \A i \in 1..Len(log) :
                        /\ contents[i].role =
                              (IF log[i].role = "assistant" THEN "model" ELSE "user")
                        /\ contents[i].parts = <<[kind |-> "text", value |-> log[i].content]>>
                  /\ entry.role = "user"
                  /\ Len(entry.parts) = Len(ready) + 1
                  /\ \A i \in 1..Len(ready) :
                        entry.parts[i] = [kind |-> "inlineData", value |-> <<ready[i]>>]
                  /\ prompt.kind = "text"
                  /\ prompt.value[1] = "Using data from: ["
                  /\ prompt.value[Len(prompt.value) - 1] = "].\n\n"
                  /\ prompt.value[Len(prompt.value)] = input
                  /\ Items(listed) = EnabledSources
                  /\ Len(listed) = (IF EnabledSources = <<>> THEN 0
                                    ELSE 2 * Len(EnabledSources) - 1)]_vars

\* a prompt was sent after an exchange with one attachment still uploading,
\* one ready and the toggles changed: the payload holds the ready one only
C25_Witness ==
    /\ sends[1].pc = "countInput"
    /\ Len(sends[1].inputContents) = 4
    /\ Len(uploadedFiles) = 2
    /\ uploadedFiles[1].status = "uploading"
    /\ ~ragSources["standards"]
    /\ ragSources["sensors"]
    /\ Len(sends[1].inputContents[4].parts) = 2

\* C26: a send, whether it succeeds or fails, leaves the attachment list, the
\* data-source toggles and the selected specialist unchanged.
C26_SendKeepsAttachments ==
    [][\A s \in SendIds :
          StepOf(s) =>
              /\ uploadedFiles' = uploadedFiles
              /\ ragSources' = ragSources
              /\ selectedAgent' = selectedAgent]_vars

\* a send has succeeded and the three attachments are still attached
C26_Witness ==
    /\ sends[1].pc = "done"
    /\ sends[1].n > 0
    /\ ~isLoading
    /\ Len(uploadedFiles) = 3
    /\ \E i \in 1..Len(chatHistories[selectedAgent]) : chatHistories[selectedAgent][i].sid = 1

----------------------------------------------------------------------------
(* Properties of the restore *)

\* the log the store holds for a specialist of the guest, <<>> if none
PersistedLog(agent) ==
    LET key == ConversationKey(GuestEmail, agent)
    IN  IF key \in DOMAIN localStorage /\ CanParse(localStorage[key])
        THEN Parse(localStorage[key]).messages
        ELSE <<>>

\* C22: when the store holds a non-empty log L that the controller persisted
\* for specialist S of the user, a hydration that starts from empty
\* controller logs sets the log of S to L, for every specialist of the roster.
C22_HydrationRestoresLogs ==
    [][\A name \in GuestNames :
          (signInAsGuest(name) /\ DOMAIN chatHistories = {}) =>
              \A agent \in Roster :
                  PersistedLog(agent) # <<>> => chatHistories'[agent] = PersistedLog(agent)]_vars

----------------------------------------------------------------------------
(* Properties of the handover between users *)

\* a log of the second user's session: seeded with the welcome message (the
\* sign-out emptied the store, so nothing is restored), then the exchanges of
\* that session, each of which starts with a user message
OwnLog(log, agent) ==
    /\ log # <<>>
    /\ log[1] = [role |-> "assistant", content |-> <<"Welcome">>, agentId |-> agent, sid |-> 0]
    /\ Len(log) > 1 => log[2].role = "user"

\* C28: after the sign-out of one user and the sign-in of another, no message
\* created during the first user's session (an increment or an apology of a
\* send still in flight at the sign-out included) is in a log shown to the
\* second user or stored under the second user's keys, and every specialist
\* log of the second user is hydrated or seeded.
C28_NoLeakAcrossUsers ==
    (user # NoUser /\ user.name \in NextGuests) =>
        \A agent \in Roster :
            /\ OwnLog(Get(chatHistories, agent), agent)
            /\ PersistedLog(agent) # <<>> => OwnLog(PersistedLog(agent), agent)

----------------------------------------------------------------------------
(* Properties of the auth provider *)

\* every subscribed callback that was called at all was last called with the
\* value getCurrentUser() returns
ListenersAgree ==
    \A cb \in Callbacks :
        (Subscribed(listeners, cb) /\ delivered[cb] # Undelivered)
            => delivered[cb] = getCurrentUser

\* a signOut call reaches its end: at once when no access token is stored,
\* else when its revoke request resolves or rejects
SignOutReturns ==
    \/ authSignOut /\ sessionStorage.access_token = Null
    \/ \E outcome \in {"resolved", "rejected"} : RevokeSettles(outcome)

\* C29: in every state the provider's user is the value last delivered to each
\* subscribed callback that was called; a signOut call ends with no user and
\* with every subscribed callback called once more, with none, whether the
\* revoke request resolved or rejected; and a callback whose unsubscribe
\* function was called is not called again.
C29_IdentityAndNotificationsAgree ==
    [][ /\ ListenersAgree'
        /\ SignOutReturns =>
               /\ getCurrentUser' = NoGoogleUser
               /\ \A cb \in Callbacks :
                      Subscribed(listeners, cb) =>
                          /\ delivered'[cb] = NoGoogleUser
                          /\ calls'[cb] = calls[cb] + 1
        /\ pageLoads' = pageLoads =>
               \A cb \in unsubscribed : calls'[cb] = calls[cb] ]_vars

\* after a Google sign-in a signOut call has waited for the revoke request and
\* ended: a subscribed callback was called with none, and an unsubscribed one,
\* called before, is no longer in the list
C29_Witness ==
    /\ exchange.pc = "done"
    /\ sessionStorage.access_token = Null
    /\ getCurrentUser = NoGoogleUser
    /\ \E cb \in Callbacks :
           /\ Subscribed(listeners, cb)
           /\ delivered[cb] = NoGoogleUser
           /\ calls[cb] >= 2
    /\ \E cb \in unsubscribed :
           /\ ~Subscribed(listeners, cb)
           /\ calls[cb] >= 1

\* the exchange of the page went past its checks
ExchangeAdmitted == exchange.pc \in {"token", "userinfo", "done"}

\* the user is one built from a token response
GoogleIdentity == authUser.email \notin {Null, GuestEmail}

\* the exchange throws: the token or the user-info request fails
ExchangeThrows ==
    /\ pageLoads' = pageLoads
    /\ exchange.pc \in {"token", "userinfo"}
    /\ exchange'.pc = "alerted"

\* C30: an exchange goes past its checks only with the state parameter equal to
\* the stored state and with a stored verifier, and a Google identity exists
\* only on a page whose exchange completed; a page loaded with a callback that
\* is turned down starts with no user, with the stored tokens it found and with
\* no callback called, and an exchange that fails later changes neither the
\* user nor the stored items and calls no callback.
C30_CallbackNeedsStoredState ==
    [][ /\ ExchangeAdmitted' =>
               /\ exchange'.state = exchange'.storedState
               /\ exchange'.storedState # Null
               /\ exchange'.codeVerifier # Null
        /\ GoogleIdentity' => exchange'.pc = "done"
        /\ (pageLoads' # pageLoads /\ exchange'.pc = "alerted") =>
               /\ getCurrentUser' = NoGoogleUser
               /\ sessionStorage'.access_token = sessionStorage.access_token
               /\ sessionStorage'.refresh_token = sessionStorage.refresh_token
               /\ \A cb \in Callbacks : calls'[cb] = 0
        /\ ExchangeThrows =>
               /\ getCurrentUser' = getCurrentUser
               /\ sessionStorage' = sessionStorage
               /\ calls' = calls ]_vars

\* a state is stored and a callback is subscribed, and the page's callback,
\* which carried another state, was turned down
C30_Witness ==
    /\ exchange.pc = "alerted"
    /\ exchange.state \in OAuthStates
    /\ exchange.storedState \in OAuthStates
    /\ exchange.state # exchange.storedState
    /\ listeners # <<>>
    /\ getCurrentUser = NoGoogleUser
    /\ sessionStorage.access_token = Null

====
